---- MODULE Spec2Model ----
(***************************************************************************)
(* Board state synchronisation of the kanban board page                    *)
(* (agnoworksphere/src/pages/kanban-board/index.jsx): the React state of   *)
(* the KanbanBoard component, its two effects (loadBoardsAndColumns,       *)
(* loadCards), its command handlers and the asynchronous passes they       *)
(* start, run against a backend that follows the interface contract.       *)
(* Every await of the source is a suspension point: one action per         *)
(* resumption of an in-flight handler.                                     *)
(***************************************************************************)
EXTENDS Integers, Sequences, FiniteSets, TLC

VARIABLES
  isAuthenticated,   \* useAuth().isAuthenticated
  mounted,           \* the KanbanBoard component is mounted
  userRole,          \* useState('member'), set from userProfile.role
  memberRole,        \* currentProject.memberRole: 'assigned' | 'not-assigned'
  columns,           \* useState([]) column list
  boardId,           \* useState(null)
  cards,             \* the card mirror
  cache,             \* localStorage['kanban-cards']
  selectedColumnId,  \* column chosen by handleAddCard
  showAddCardModal,
  searchQuery,       \* useState('')
  activeFilters,     \* useState({})
  loadTimer,         \* setTimeout(loadBoardsAndColumns, 50) is pending
  cardsTimer,        \* setTimeout(loadCards, 100) is pending
  tasks,             \* in-flight async handlers, one record per slot
  srvCards,          \* backend: card id -> stored card
  srvVer,            \* backend: number of writes applied to srvCards
  srvKind,           \* backend: what the project/board/column reads deliver
  alerts,            \* user-facing messages shown by alert()
  nCmd,              \* number of commands issued so far
  nAuth,             \* number of authentication changes so far
  nFail,             \* number of failed requests so far
  nProfile,          \* number of user profiles delivered so far
  lastCmd,           \* the last command handler that ran, and its outcome
  done,              \* the last card-loading pass that completed
  viewer,            \* the CardDetails component's state
  updateLog,         \* backend: the cards.update requests received
  now,               \* the clock read by new Date(), in ticks
  session            \* the SessionService singleton, sessionStorage and its calls

vars == <<isAuthenticated, mounted, userRole, memberRole, columns, boardId,
          cards, cache, selectedColumnId, showAddCardModal, searchQuery,
          activeFilters, loadTimer, cardsTimer, tasks, srvCards, srvVer, srvKind,
          alerts, nCmd, nAuth, nFail, nProfile, lastCmd, done, viewer, updateLog,
          now, session>>

\* the state of the KanbanBoard component and its collaborators
boardVars == <<isAuthenticated, mounted, userRole, memberRole, columns, boardId,
               cards, cache, selectedColumnId, showAddCardModal, searchQuery,
               activeFilters, loadTimer, cardsTimer, tasks, srvCards, srvVer,
               srvKind, alerts, nCmd, nAuth, nFail, nProfile, lastCmd, done, now>>

\* the state of the CardDetails component and its collaborators
viewVars == <<viewer, updateLog>>

----------------------------------------------------------------------------
(* Bounds of the model *)

MaxCommands == 1      \* commands issued by the user
MaxAuthChanges == 1   \* changes of isAuthenticated
MaxFailures == 1      \* requests that fail
MaxTasks == 2         \* handlers in flight at the same time
MaxChanges == 2       \* trackChange calls in the card viewer
MaxSaves == 2         \* handleSaveChanges calls in the card viewer
MaxCards == 2         \* cards of a mirror handed to the filter
MaxTicks == 1         \* ticks of the clock while the board is shown
MaxRetries == 2       \* handleRetry calls in the card viewer
MaxProfiles == 1      \* user profiles the profile hook delivers
MaxCalls == 3         \* calls of login, initialize and logout

----------------------------------------------------------------------------
(* JavaScript values *)

Undefined == "undefined"
Null == "null"
NoCache == [present |-> FALSE, value |-> <<>>]   \* localStorage.getItem returns null
\* JSON.stringify(allCards): a key whose value is undefined is left out
StringKeys == {"id", "columnId", "title", "description", "priority"}
Stringify(list) ==
  [i \in 1..Len(list) |->
     [k \in {f \in DOMAIN list[i] : f \in StringKeys => list[i][f] # Undefined}
        |-> list[i][k]]]

\* JSON.parse(savedCards): reading a key that was left out yields undefined
CardKeys == StringKeys \cup {"assignedTo", "dueDate", "labels"}
Parse(json) ==
  [i \in 1..Len(json) |->
     [k \in CardKeys |-> IF k \in DOMAIN json[i] THEN json[i][k] ELSE Undefined]]

\* localStorage.setItem('kanban-cards', JSON.stringify(allCards))
Stored(list) == [present |-> TRUE, value |-> Stringify(list)]

Falsy == {Undefined, Null, ""}
Truthy(v) == v \notin Falsy
\* a || b
Or(a, b) == IF Truthy(a) THEN a ELSE b

\* String.prototype.trim on the strings the inputs use
Trim(s) ==
  CASE s = "  " -> ""
    [] s = " Fix " -> "Fix"
    [] s = " d " -> "d"
    [] OTHER -> s

\* String.prototype.toLowerCase on the strings the inputs use
ToLowerCase(s) ==
  CASE s = "HIGH" -> "high"
    [] s = "Alpha" -> "alpha"
    [] s = "Beta" -> "beta"
    [] s = "Fix" -> "fix"
    [] s = "FIX" -> "fix"
    [] s = "Urgent" -> "urgent"
    [] s = "Bogus" -> "bogus"
    [] OTHER -> s

Priorities == <<"low", "medium", "high", "urgent">>

SeqToSet(s) == {s[i] : i \in 1..Len(s)}

----------------------------------------------------------------------------
(* Backend-access collaborator (apiService), from its interface contract *)

Roles == {"viewer", "member", "admin", "owner"}
MemberRoles == {"assigned", "not-assigned"}

\* columns.getByBoard answers in arrival order; position is the sort key
SrvColumns ==
  << [id |-> "B", name |-> "Doing", status |-> "in-progress", position |-> 2],
     [id |-> "A", name |-> "Todo", status |-> "todo", position |-> 1] >>

\* a board whose second column has position 0
SrvColumnsZero ==
  << [id |-> "B", name |-> "Doing", status |-> "in-progress", position |-> 1],
     [id |-> "A", name |-> "Todo", status |-> "todo", position |-> 0] >>

\* columns.getByBoard(board.id) for each kind of backend
SrvColumnsOf(kind) ==
  CASE kind = "nocolumns" -> <<>>
    [] kind = "zero" -> SrvColumnsZero
    [] OTHER -> SrvColumns

SrvColumnIds == {"A", "B"}

\* card ids in the order the backend lists and issues them
CardIds == <<"c1", "c2", "c3", "c4", "c5", "c6", "c7">>

SrvCard(id, col, title, descr, prio) ==
  [id |-> id, column_id |-> col, title |-> title, description |-> descr,
   priority |-> prio, assigned_to |-> <<>>, due_date |-> Null, labels |-> <<>>]

InitSrvCards ==
  ("c1" :> SrvCard("c1", "A", "Alpha", "first", "high")) @@
  ("c2" :> SrvCard("c2", "A", "Beta", "", "low"))

\* cards.getAll(columnId): the stored cards of the column, in id order
SrvCardsIn(srv, col) ==
  LET ids == SelectSeq(CardIds, LAMBDA id : id \in DOMAIN srv /\ srv[id].column_id = col)
  IN  [i \in 1..Len(ids) |-> srv[ids[i]]]

\* the shapes a card-collection read may answer with
Shapes(list) ==
  {"array", "envelope"} \cup (IF Len(list) = 1 THEN {"single"} ELSE {})

\* the id cards.create gives the next card
FreshCardId(srv) ==
  LET free == SelectSeq(CardIds, LAMBDA id : id \notin DOMAIN srv) IN Head(free)

CanCreate(srv) == \E i \in 1..Len(CardIds) : CardIds[i] \notin DOMAIN srv

----------------------------------------------------------------------------
(* PermissionPolicy *)

IsUserAssignedToProject(role, mrole) ==
  IF role = "member" THEN mrole = "assigned"
  ELSE role \in {"admin", "owner"}

CanCreateCards(role, mrole) ==
  IF role = "viewer" THEN FALSE ELSE IsUserAssignedToProject(role, mrole)

CanEditCards(role, mrole) ==
  IF role = "viewer" THEN FALSE ELSE IsUserAssignedToProject(role, mrole)

CanDeleteCards(role, mrole) ==
  IF role = "viewer" THEN FALSE ELSE IsUserAssignedToProject(role, mrole)

CanCreateColumns(role, mrole) ==
  IF role = "viewer" THEN FALSE ELSE IsUserAssignedToProject(role, mrole)

CanEditColumns(role, mrole) ==
  IF role = "viewer" THEN FALSE ELSE IsUserAssignedToProject(role, mrole)

CanDeleteColumns(role, mrole) ==
  IF role = "viewer" THEN FALSE ELSE IsUserAssignedToProject(role, mrole)

\* variant: every role but viewer may invite
CanInviteMembersButViewer(role) == role # "viewer"

CanInviteMembers(role) == role \in {"admin", "owner"}

CanDragCards(role, mrole) ==
  IF role = "viewer" THEN FALSE ELSE IsUserAssignedToProject(role, mrole)

\* the capability set of (role, assignment)
Capabilities(role, mrole) ==
  [createCard |-> CanCreateCards(role, mrole),
   editCard |-> CanEditCards(role, mrole),
   deleteCard |-> CanDeleteCards(role, mrole),
   createColumn |-> CanCreateColumns(role, mrole),
   editColumn |-> CanEditColumns(role, mrole),
   deleteColumn |-> CanDeleteColumns(role, mrole),
   inviteMember |-> CanInviteMembers(role),
   dragCard |-> CanDragCards(role, mrole)]

----------------------------------------------------------------------------
(* Columns *)

\* number || number || 1, where 0 stands for both 0 and a missing value
OrNum(a, b) == IF a # 0 THEN a ELSE b

MapColumn(col) ==
  [id |-> col.id, title |-> Or(col.name, Undefined),
   status |-> Or(col.status, "todo"), order |-> OrNum(col.position, 1)]

\* Array.prototype.sort((a, b) => a.order - b.order): stable
InsertByOrder(s, x) ==
  LET k == Cardinality({i \in 1..Len(s) : s[i].order <= x.order})
  IN  SubSeq(s, 1, k) \o <<x>> \o SubSeq(s, k + 1, Len(s))

RECURSIVE SortByOrder(_)
SortByOrder(s) ==
  IF Len(s) = 0 THEN <<>>
  ELSE InsertByOrder(SortByOrder(SubSeq(s, 1, Len(s) - 1)), s[Len(s)])

ColumnIds(cols) == [i \in 1..Len(cols) |-> cols[i].id]

NewColumnIds == <<"N1", "N2", "N3", "N4">>

----------------------------------------------------------------------------
(* Card normalisation of the three card-loading passes *)

\* loadCards: array, envelope or single object
NormalizeLoad(shape, list) == list

\* reload after move and after create: array or envelope only
NormalizeReload(shape, list) == IF shape = "single" THEN <<>> ELSE list

\* loadCards, per card
TransformLoad(card, colId) ==
  [id |-> card.id,
   columnId |-> Or(card.column_id, colId),
   title |-> Or(card.title, "Untitled Card"),
   description |-> Or(card.description, ""),
   priority |-> Or(card.priority, "medium"),
   assignedTo |-> card.assigned_to,
   dueDate |-> card.due_date,
   labels |-> card.labels]

\* reload after move and after create, per card
TransformReload(card, colId) ==
  [id |-> card.id,
   columnId |-> Or(card.column_id, colId),
   title |-> Or(card.title, "Untitled Card"),
   description |-> Or(card.description, ""),
   priority |-> Or(card.priority, "medium"),
   assignedTo |-> card.assigned_to,
   dueDate |-> card.due_date,
   labels |-> card.labels]

\* the cards one fetch of a pass of the given kind adds to allCards
FetchedCards(kind, shape, list, colId) ==
  IF kind = "cards"
  THEN LET l == NormalizeLoad(shape, list)
       IN  [i \in 1..Len(l) |-> TransformLoad(l[i], colId)]
  ELSE LET l == NormalizeReload(shape, list)
       IN  [i \in 1..Len(l) |-> TransformReload(l[i], colId)]

----------------------------------------------------------------------------
(* FilterEngine and derived per-column lists *)

\* String.prototype.includes on lower-cased text, for the queries in use
Includes(text, query) ==
  CASE query = "" -> TRUE
    [] query = "alp" -> ToLowerCase(text) \in {"alpha"}
    [] query = "fix" -> ToLowerCase(text) \in {"fix"}
    [] OTHER -> ToLowerCase(text) = query

\* 24 * 60 * 60 * 1000 ms; one tick of the clock is twelve hours
TicksPerDay == 2

\* days before the first of each month, counted from 1 January 2025
MonthStarts == <<0, 31, 59, 90>>

\* new Date(year, month, date): midnight; a date past the end of the month
\* runs into the next one
MakeDate(month, date) == (MonthStarts[month] + date - 1) * TicksPerDay

DayOf(t) == t \div TicksPerDay
\* getMonth() + 1
MonthOf(t) == CHOOSE m \in 1..3 : MonthStarts[m] <= DayOf(t) /\ DayOf(t) < MonthStarts[m + 1]
\* getDate()
DateOf(t) == DayOf(t) - MonthStarts[MonthOf(t)] + 1

\* the date strings in use and the instants they denote
DateTable ==
  ("2025-01-10" :> MakeDate(1, 10)) @@
  ("2025-01-15" :> MakeDate(1, 15)) @@
  ("2025-01-22T12:00" :> MakeDate(1, 22) + 1) @@
  ("2025-02-15" :> MakeDate(2, 15))

\* new Date(string): an Invalid Date for anything that is no date
NewDate(str) ==
  IF str \in DOMAIN DateTable
  THEN [valid |-> TRUE, t |-> DateTable[str]]
  ELSE [valid |-> FALSE, t |-> 0]

\* new Date(), new Date(ms)
DateAt(t) == [valid |-> TRUE, t |-> t]

\* a < b, a <= b on Date objects: false when either is an Invalid Date
DateLt(a, b) == a.valid /\ b.valid /\ a.t < b.t
DateLeq(a, b) == a.valid /\ b.valid /\ a.t <= b.t
\* a.toDateString() === b.toDateString()
SameDateString(a, b) == a.valid = b.valid /\ (a.valid => DayOf(a.t) = DayOf(b.t))

\* activeFilters.customDateRange is not set
NoRange == [present |-> FALSE, start |-> "", end |-> ""]

\* activeFilters = {}
NoFilters ==
  [priority |-> <<>>, assignee |-> <<>>, dueDate |-> <<>>, customDateRange |-> NoRange]

\* the callback given to activeFilters.dueDate.some, with today = new Date()
MatchesBucket(dueDate, filter, filters, today) ==
  Truthy(dueDate) /\
    LET cardDueDate == NewDate(dueDate)
    IN  CASE filter = "overdue" -> DateLt(cardDueDate, today)
          [] filter = "today" -> SameDateString(cardDueDate, today)
          [] filter = "this-week" ->
               /\ DateLeq(today, cardDueDate)
               /\ DateLeq(cardDueDate, DateAt(today.t + 7 * TicksPerDay))
          [] filter = "this-month" ->
               /\ DateLeq(today, cardDueDate)
               /\ DateLeq(cardDueDate,
                          DateAt(MakeDate(MonthOf(today.t) + 1, DateOf(today.t))))
          [] filter = "custom" /\ filters.customDateRange.present ->
               /\ DateLeq(NewDate(filters.customDateRange.start), cardDueDate)
               /\ DateLeq(cardDueDate, NewDate(filters.customDateRange.end))
          [] OTHER -> FALSE

\* variant: a card without a due date passes the due date facet
MatchesDueDateOrNone(card, filters) ==
  \/ ~Truthy(card.dueDate)
  \/ \E i \in 1..Len(filters.dueDate) :
       MatchesBucket(card.dueDate, filters.dueDate[i], filters, DateAt(now))

\* matchesDueDate
MatchesDueDate(card, filters) ==
  \E i \in 1..Len(filters.dueDate) :
    MatchesBucket(card.dueDate, filters.dueDate[i], filters, DateAt(now))

\* matchesSearch
MatchesSearch(card, query) ==
  \/ Includes(card.title, ToLowerCase(query))
  \/ Includes(card.description, ToLowerCase(query))
  \/ \E i \in 1..Len(card.labels) : Includes(card.labels[i].name, ToLowerCase(query))

\* hasAssignee
HasAssignee(card, filters) ==
  \E i \in 1..Len(card.assignedTo) : card.assignedTo[i] \in SeqToSet(filters.assignee)

\* variant: a card passes when it satisfies one of the active facets
MatchesAnyFilter(card, query, filters) ==
  /\ (query # "") => MatchesSearch(card, query)
  /\ \/ Len(filters.priority) + Len(filters.assignee) + Len(filters.dueDate) = 0
     \/ Len(filters.priority) > 0 /\ card.priority \in SeqToSet(filters.priority)
     \/ Len(filters.assignee) > 0 /\ HasAssignee(card, filters)
     \/ Len(filters.dueDate) > 0 /\ MatchesDueDate(card, filters)

\* the callback given to cards.filter
MatchesFilters(card, query, filters) ==
  /\ (query # "") => MatchesSearch(card, query)
  /\ (Len(filters.priority) > 0) => card.priority \in SeqToSet(filters.priority)
  /\ (Len(filters.assignee) > 0) => HasAssignee(card, filters)
  /\ (Len(filters.dueDate) > 0) => MatchesDueDate(card, filters)

\* variant: cards without a description are left out
FilteredCardsDescribed(cs, query, filters) ==
  SelectSeq(cs, LAMBDA card : MatchesFilters(card, query, filters) /\ card.description # "")

FilteredCards(cs, query, filters) ==
  SelectSeq(cs, LAMBDA card : MatchesFilters(card, query, filters))

GetCardsForColumn(cs, query, filters, columnId) ==
  SelectSeq(FilteredCards(cs, query, filters), LAMBDA card : card.columnId = columnId)

----------------------------------------------------------------------------
(* In-flight handlers *)

NoPayload == [title |-> "", description |-> "", column_id |-> "", priority |-> ""]

\* kind: "load" loadBoardsAndColumns, "cards" loadCards, "move" handleCardMove,
\* "create" handleSaveCard.  cols is the column list the handler closed over,
\* idx the column whose cards.getAll is awaited, acc the local allCards.
\* role, sync, clean and failed record the circumstances of a command: the
\* role that issued it, whether the mirror agreed with the backend at that
\* moment, whether nothing else has written the mirror or the backend since,
\* and the columns whose fetch failed.  vers is the set of backend versions
\* the fetches of the pass have read so far.

NoTask ==
  [kind |-> "none", pc |-> "idle", cols |-> <<>>, idx |-> 0, acc |-> <<>>,
   role |-> "none", card |-> "", target |-> "", payload |-> NoPayload,
   sync |-> FALSE, clean |-> TRUE, failed |-> {}, vers |-> {}]

Slots == 1..MaxTasks

HasFreeSlot == \E t \in Slots : tasks[t].kind = "none"

FreeSlot == CHOOSE t \in Slots : tasks[t].kind = "none" /\ \A u \in Slots : tasks[u].kind = "none" => t <= u

Writers(ts) == {t \in Slots : ts[t].kind \in {"move", "create"}}

\* something other than handler t wrote the mirror or issued a command
Touch(ts, t) ==
  [u \in Slots |-> IF u \in Writers(ts) /\ u # t
                   THEN [ts[u] EXCEPT !.clean = FALSE]
                   ELSE ts[u]]

RECURSIVE ExpectedFrom(_, _, _)
ExpectedFrom(srv, colIds, i) ==
  IF i > Len(colIds) THEN <<>>
  ELSE FetchedCards("cards", "array", SrvCardsIn(srv, colIds[i]), colIds[i])
         \o ExpectedFrom(srv, colIds, i + 1)

\* the mirror a pass over colIds yields when every fetch succeeds
ExpectedMirror(srv, colIds) == ExpectedFrom(srv, colIds, 1)

\* the last completed pass: its kind, column list, failed columns, the
\* backend version it read and the allCards it passed to setCards
NoDone ==
  [kind |-> "none", cols |-> <<>>, failed |-> {}, vers |-> {}, result |-> <<>>]

----------------------------------------------------------------------------
(* CardDetails: values *)

\* pendingChanges = {}
NoChanges == [k \in {} |-> ""]

\* the ids cardData can carry: a UUID, the placeholder's '1', a
\* client-made id, none
ValidCardId == "123e4567-e89b-42d3-a456-426614174000"
CardDataIds == {ValidCardId, "1", "card-1700000000000", Undefined}

\* isValidUUID(str)
IsValidUUID(str) == str = ValidCardId

\* pc: "closed" not rendered, "idle", "import" awaiting import(realApiService),
\* "update" awaiting cards.update.  closure is the pendingChanges the running
\* handleSaveChanges closed over.  nChanges, nSaves count the user's actions.
\* navCard: location.state carries a card, navId is its id; param:
\* searchParams.get('id');
\* cardData: "none" for null, "loaded" for a card of the navigation state or
\* of cards.getById, "placeholder" for the synthesized 'Card Not Found';
\* cardId is cardData.id.  effect: the loader effect is due to run; runs: the
\* loadCardData calls that await, each with its position and its didCancel.
NoViewer ==
  [pc |-> "closed", cardId |-> Undefined, pendingChanges |-> NoChanges,
   hasUnsavedChanges |-> FALSE, isSaving |-> FALSE, closure |-> NoChanges,
   alerts |-> 0, saved |-> 0, nChanges |-> 0, nSaves |-> 0,
   navCard |-> FALSE, navId |-> Undefined, param |-> Null, cardData |-> "none",
   isLoading |-> TRUE,
   loadError |-> Null, retryCount |-> 0, effect |-> FALSE, runs |-> <<>>]

\* the component after its card data was set
OpenViewer(id) ==
  [NoViewer EXCEPT !.pc = "idle", !.cardId = id, !.cardData = "loaded",
                   !.isLoading = FALSE]

ViewerClosed == viewer = NoViewer /\ updateLog = <<>>

----------------------------------------------------------------------------
(* SessionService (utils/sessionService.js): the singleton's fields, the    *)
(* 'agno_session' entry of sessionStorage and the one call in flight       *)

NoStored == [present |-> FALSE, sessionToken |-> Null, refreshToken |-> Null, user |-> Null]

\* the singleton after its constructor, with an empty sessionStorage
NoSession ==
  [currentSession |-> Null, sessionToken |-> Null, refreshToken |-> Null,
   user |-> Null, stored |-> NoStored, pc |-> "idle", token |-> Null,
   rtoken |-> Null, returned |-> [op |-> "none", value |-> FALSE], nCalls |-> 0]

\* isAuthenticated()
IsAuthenticated(s) == Truthy(s.sessionToken) /\ Truthy(s.user)

\* getSessionToken(): the field, else the stored entry's, else null
GetSessionToken(s) ==
  IF Truthy(s.sessionToken) THEN s.sessionToken
  ELSE IF s.stored.present THEN s.stored.sessionToken
  ELSE Null

\* getRefreshToken()
GetRefreshToken(s) ==
  IF Truthy(s.refreshToken) THEN s.refreshToken
  ELSE IF s.stored.present THEN s.stored.refreshToken
  ELSE Null

\* storeSession(): a key whose value is undefined is left out by
\* JSON.stringify and read back as undefined
StoreSession(s) ==
  [s EXCEPT !.stored = [present |-> TRUE, sessionToken |-> s.sessionToken,
                        refreshToken |-> s.refreshToken, user |-> s.user]]

\* clearSession()
ClearSession(s) ==
  [s EXCEPT !.currentSession = Null, !.sessionToken = Null,
            !.refreshToken = Null, !.user = Null, !.stored = NoStored]

\* the call in flight resolves
Returned(s, op, value) ==
  [s EXCEPT !.pc = "idle", !.token = Null, !.rtoken = Null,
            !.returned = [op |-> op, value |-> value]]

\* a caller invokes a method of the singleton
Called(s) == [s EXCEPT !.nCalls = @ + 1]

CanCall == session.pc = "idle" /\ session.nCalls < MaxCalls

\* the page is loaded again: the module is evaluated anew, sessionStorage
\* is kept
Reload ==
  /\ session' = [NoSession EXCEPT !.stored = session.stored,
                                  !.nCalls = session.nCalls]
  /\ session' # session
  /\ UNCHANGED <<boardVars, viewVars>>

\* login(email, password) up to its fetch
Login ==
  /\ CanCall
  /\ session' = [Called(session) EXCEPT !.pc = "login"]
  /\ UNCHANGED <<boardVars, viewVars>>

\* the login response is ok
LoginOk ==
  /\ session.pc = "login"
  /\ session' = Returned(StoreSession([session EXCEPT !.sessionToken = "t1",
                                                       !.refreshToken = "r1",
                                                       !.user = "u1",
                                                       !.currentSession = "s1"]),
                         "login", TRUE)
  /\ UNCHANGED <<boardVars, viewVars>>

\* the login response is not ok, or fetch throws
LoginFail ==
  /\ session.pc = "login"
  /\ session' = Returned(session, "login", FALSE)
  /\ UNCHANGED <<boardVars, viewVars>>

\* initialize() up to the fetch of validateSession
Initialize ==
  /\ CanCall
  /\ LET sessionToken == GetSessionToken(session)
         refreshToken == GetRefreshToken(session)
     IN  session' = IF Truthy(sessionToken)
                    THEN [Called(session) EXCEPT !.pc = "validate",
                                                 !.token = sessionToken,
                                                 !.rtoken = refreshToken]
                    ELSE Returned(ClearSession(Called(session)), "initialize", FALSE)
  /\ UNCHANGED <<boardVars, viewVars>>

\* validateSession: the response is ok
ValidateOk ==
  /\ session.pc = "validate"
  /\ session' = Returned([session EXCEPT !.user = "u1"], "initialize", TRUE)
  /\ UNCHANGED <<boardVars, viewVars>>

\* validateSession: the response is not ok, or fetch throws
ValidateNotOk ==
  /\ session.pc = "validate"
  /\ session' = IF Truthy(session.rtoken)
                THEN [session EXCEPT !.pc = "refresh"]
                ELSE Returned(ClearSession(session), "initialize", FALSE)
  /\ UNCHANGED <<boardVars, viewVars>>

\* refreshSession: the response is ok and carries the new tokens
RefreshOk(newRefreshToken) ==
  /\ session.pc = "refresh"
  /\ session' = Returned(StoreSession([session EXCEPT !.sessionToken = "t2",
                                                       !.refreshToken = newRefreshToken]),
                         "initialize", TRUE)
  /\ UNCHANGED <<boardVars, viewVars>>

\* refreshSession: the response is not ok, or fetch throws
RefreshNotOk ==
  /\ session.pc = "refresh"
  /\ session' = Returned(ClearSession(session), "initialize", FALSE)
  /\ UNCHANGED <<boardVars, viewVars>>

\* logout() up to its fetch
Logout ==
  /\ CanCall
  /\ session' = IF Truthy(GetSessionToken(session))
                THEN [Called(session) EXCEPT !.pc = "logout"]
                ELSE Returned(ClearSession(Called(session)), "logout", TRUE)
  /\ UNCHANGED <<boardVars, viewVars>>

\* the logout request returns, whatever its status
LogoutOk ==
  /\ session.pc = "logout"
  /\ session' = Returned(ClearSession(session), "logout", TRUE)
  /\ UNCHANGED <<boardVars, viewVars>>

\* variant: a logout whose request throws keeps the session
LogoutThrowKeeping ==
  /\ session.pc = "logout"
  /\ session' = Returned(session, "logout", FALSE)
  /\ UNCHANGED <<boardVars, viewVars>>

\* the logout request throws: the session is cleared anyway
LogoutThrow ==
  /\ session.pc = "logout"
  /\ session' = Returned(ClearSession(session), "logout", FALSE)
  /\ UNCHANGED <<boardVars, viewVars>>

\* the clock when the page is opened: 15 January 2025, noon
ClockStart == MakeDate(1, 15) + 1

----------------------------------------------------------------------------
(* Initial state: the component has just mounted *)

\* the mirror an earlier session left in localStorage
CachedMirror == ExpectedMirror(InitSrvCards, <<"A", "B">>)

SrvKinds == {"noproject", "noboard", "nocolumns", "full"}

\* the state after the first render, for the given collaborators' state
Mounted(auth, mrole, stored, kind, failures) ==
  /\ isAuthenticated = auth
  /\ mounted = TRUE
  /\ userRole = "member"
  /\ memberRole = mrole
  /\ columns = <<>>
  /\ boardId = Null
  /\ cache = stored
  /\ cards = IF cache.present THEN Parse(cache.value) ELSE <<>>
  /\ selectedColumnId = Null
  /\ showAddCardModal = FALSE
  /\ searchQuery = ""
  /\ activeFilters = NoFilters
  /\ loadTimer = TRUE
  /\ cardsTimer = TRUE
  /\ tasks = [t \in Slots |-> NoTask]
  /\ srvCards = InitSrvCards
  /\ srvVer = 0
  /\ srvKind = kind
  /\ alerts = 0
  /\ nCmd = 0
  /\ nAuth = 0
  /\ nFail = failures
  /\ nProfile = 0
  /\ lastCmd = [name |-> "none", denied |-> FALSE]
  /\ done = NoDone
  /\ ViewerClosed
  /\ now = ClockStart
  /\ session = NoSession

----------------------------------------------------------------------------
(* Environment: profile, authentication, navigation *)

uiVars == <<selectedColumnId, showAddCardModal, searchQuery, activeFilters>>
srvVars == <<srvCards, srvVer, srvKind>>
cmdVars == <<alerts, nCmd, lastCmd>>

\* useEffect[userProfile]: setUserRole((userProfile.role || 'member').toLowerCase())
SetUserRole(r) ==
  /\ mounted
  /\ nProfile < MaxProfiles
  /\ nProfile' = nProfile + 1
  /\ userRole' = r
  /\ UNCHANGED <<isAuthenticated, mounted, memberRole, columns, boardId, cards,
                 cache, uiVars, loadTimer, cardsTimer, tasks, srvVars, cmdVars,
                 nAuth, nFail, done, viewVars, session, now>>

\* isAuthenticated changes: both effects are cleaned up and scheduled again
AuthChange ==
  /\ mounted
  /\ nAuth < MaxAuthChanges
  /\ nAuth' = nAuth + 1
  /\ isAuthenticated' = ~isAuthenticated
  /\ loadTimer' = TRUE
  /\ cardsTimer' = TRUE
  /\ UNCHANGED <<mounted, userRole, memberRole, columns, boardId, cards, cache,
                 uiVars, tasks, srvVars, cmdVars, nFail, nProfile, done, viewVars, session, now>>

\* leaving the board view: the effect clean-ups clear both timers
Unmount ==
  /\ mounted
  /\ mounted' = FALSE
  /\ loadTimer' = FALSE
  /\ cardsTimer' = FALSE
  /\ UNCHANGED <<isAuthenticated, userRole, memberRole, columns, boardId, cards,
                 cache, uiVars, tasks, srvVars, cmdVars, nAuth, nProfile, viewVars, session, now, nFail, done>>

----------------------------------------------------------------------------
(* loadBoardsAndColumns *)

StartTask(t, rec) == tasks' = [tasks EXCEPT ![t] = rec]

\* handler t ends with a write of the mirror
EndTouching(t) == tasks' = [Touch(tasks, t) EXCEPT ![t] = NoTask]

\* variant: the unauthenticated branch leaves the offline cache in place
LoadTimerFireKeepsCache ==
  /\ mounted
  /\ loadTimer
  /\ loadTimer' = FALSE
  /\ IF ~isAuthenticated
     THEN /\ columns' = <<>>
          /\ boardId' = Null
          /\ cards' = <<>>
          /\ cache' = cache
          /\ cardsTimer' = TRUE
          /\ tasks' = Touch(tasks, 0)
     ELSE /\ HasFreeSlot
          /\ StartTask(FreeSlot, [NoTask EXCEPT !.kind = "load",
                                                !.pc = "projects"])
          /\ UNCHANGED <<columns, boardId, cards, cache, cardsTimer>>
  /\ UNCHANGED <<isAuthenticated, mounted, userRole, memberRole, uiVars, srvVars,
                 cmdVars, nAuth, nProfile, viewVars, session, now, nFail, done>>

\* the 50 ms timer fires
LoadTimerFire ==
  /\ mounted
  /\ loadTimer
  /\ loadTimer' = FALSE
  /\ IF ~isAuthenticated
     THEN /\ columns' = <<>>
          /\ boardId' = Null
          /\ cards' = <<>>
          /\ cache' = NoCache
          /\ cardsTimer' = TRUE
          /\ tasks' = Touch(tasks, 0)
     ELSE /\ HasFreeSlot
          /\ StartTask(FreeSlot, [NoTask EXCEPT !.kind = "load",
                                                !.pc = "projects"])
          /\ UNCHANGED <<columns, boardId, cards, cache, cardsTimer>>
  /\ UNCHANGED <<isAuthenticated, mounted, userRole, memberRole, uiVars, srvVars,
                 cmdVars, nAuth, nProfile, viewVars, session, now, nFail, done>>

\* setColumns / setBoardId / setCards of a mounted component; every
\* setColumns re-runs the loadCards effect
SetBoard(cols, bid) ==
  IF mounted
  THEN /\ columns' = cols
       /\ boardId' = bid
       /\ cardsTimer' = TRUE
  ELSE UNCHANGED <<columns, boardId, cardsTimer>>

\* variant: a load that finds no project or no board also removes the
\* offline cache
LoadStepOkClearingCache(t) ==
  /\ tasks[t].kind = "load"
  /\ CASE tasks[t].pc = "projects" /\ srvKind = "noproject" ->
            /\ SetBoard(<<>>, Null)
            /\ cards' = IF mounted THEN <<>> ELSE cards
            /\ EndTouching(t)
       [] tasks[t].pc = "projects" /\ srvKind # "noproject" ->
            /\ StartTask(t, [tasks[t] EXCEPT !.pc = "boards"])
            /\ UNCHANGED <<columns, boardId, cardsTimer, cards>>
       [] tasks[t].pc = "boards" /\ srvKind = "noboard" ->
            /\ SetBoard(<<>>, Null)
            /\ cards' = IF mounted THEN <<>> ELSE cards
            /\ EndTouching(t)
       [] tasks[t].pc = "boards" /\ srvKind # "noboard" ->
            /\ StartTask(t, [tasks[t] EXCEPT !.pc = "columns"])
            /\ UNCHANGED <<columns, boardId, cardsTimer, cards>>
       [] tasks[t].pc = "columns" ->
            /\ LET resp == SrvColumnsOf(srvKind)
                   mapped == [i \in 1..Len(resp) |-> MapColumn(resp[i])]
               IN  SetBoard(SortByOrder(mapped), "board-1")
            /\ StartTask(t, NoTask)
            /\ UNCHANGED cards
  /\ cache' = IF columns' = <<>> /\ boardId' = Null /\ tasks'[t].kind = "none"
              THEN NoCache ELSE cache
  /\ UNCHANGED <<isAuthenticated, mounted, userRole, memberRole, uiVars,
                 loadTimer, srvVars, cmdVars, nAuth, nProfile, viewVars, session, now, nFail, done>>

\* a request of the load chain returns
LoadStepOk(t) ==
  /\ tasks[t].kind = "load"
  /\ CASE tasks[t].pc = "projects" /\ srvKind = "noproject" ->
            /\ SetBoard(<<>>, Null)
            /\ cards' = IF mounted THEN <<>> ELSE cards
            /\ EndTouching(t)
       [] tasks[t].pc = "projects" /\ srvKind # "noproject" ->
            /\ StartTask(t, [tasks[t] EXCEPT !.pc = "boards"])
            /\ UNCHANGED <<columns, boardId, cardsTimer, cards>>
       [] tasks[t].pc = "boards" /\ srvKind = "noboard" ->
            /\ SetBoard(<<>>, Null)
            /\ cards' = IF mounted THEN <<>> ELSE cards
            /\ EndTouching(t)
       [] tasks[t].pc = "boards" /\ srvKind # "noboard" ->
            /\ StartTask(t, [tasks[t] EXCEPT !.pc = "columns"])
            /\ UNCHANGED <<columns, boardId, cardsTimer, cards>>
       [] tasks[t].pc = "columns" ->
            /\ LET resp == SrvColumnsOf(srvKind)
                   mapped == [i \in 1..Len(resp) |-> MapColumn(resp[i])]
               IN  SetBoard(SortByOrder(mapped), "board-1")
            /\ StartTask(t, NoTask)
            /\ UNCHANGED cards
  /\ UNCHANGED <<isAuthenticated, mounted, userRole, memberRole, cache, uiVars,
                 loadTimer, srvVars, cmdVars, nAuth, nProfile, viewVars, session, now, nFail, done>>

\* variant: a failed request of the load chain resets the board
LoadStepFailClearing(t) ==
  /\ tasks[t].kind = "load"
  /\ nFail < MaxFailures
  /\ nFail' = nFail + 1
  /\ StartTask(t, NoTask)
  /\ columns' = <<>>
  /\ boardId' = Null
  /\ cards' = <<>>
  /\ UNCHANGED <<isAuthenticated, mounted, userRole, memberRole,
                 cache, uiVars, loadTimer, cardsTimer, srvVars, cmdVars,
                 nAuth, nProfile, viewVars, session, now, done>>

\* a request of the load chain throws: the existing state is kept
LoadStepFail(t) ==
  /\ tasks[t].kind = "load"
  /\ nFail < MaxFailures
  /\ nFail' = nFail + 1
  /\ StartTask(t, NoTask)
  /\ UNCHANGED <<isAuthenticated, mounted, userRole, memberRole, columns, boardId,
                 cards, cache, uiVars, loadTimer, cardsTimer, srvVars, cmdVars,
                 nAuth, nProfile, viewVars, session, now, done>>

----------------------------------------------------------------------------
(* Card-loading passes: loadCards and the reloads after move and create *)

\* the 100 ms timer fires; it was set together with or after the 50 ms one
CardsTimerFire ==
  /\ mounted
  /\ cardsTimer
  /\ ~loadTimer
  /\ cardsTimer' = FALSE
  /\ IF Len(columns) = 0
     THEN UNCHANGED tasks
     ELSE /\ HasFreeSlot
          /\ StartTask(FreeSlot, [NoTask EXCEPT !.kind = "cards", !.pc = "fetch",
                                   !.cols = ColumnIds(columns), !.idx = 1])
  /\ UNCHANGED <<isAuthenticated, mounted, userRole, memberRole, columns, boardId,
                 cards, cache, uiVars, loadTimer, srvVars, cmdVars, nAuth, nProfile, viewVars, session, now, nFail,
                 done>>

\* variant: a pass that ends without localStorage.setItem
AfterFetchNoSave(t, acc, failed, vers) ==
  IF tasks[t].idx < Len(tasks[t].cols)
  THEN /\ StartTask(t, [tasks[t] EXCEPT !.idx = @ + 1, !.acc = acc,
                                        !.failed = failed, !.vers = vers])
       /\ UNCHANGED <<cards, cache, done>>
  ELSE \* setCards(allCards); localStorage.setItem('kanban-cards', ...)
       /\ cards' = IF mounted THEN acc ELSE cards
       /\ cache' = cache
       /\ done' = [kind |-> tasks[t].kind, cols |-> tasks[t].cols,
                   failed |-> failed, vers |-> vers, result |-> acc]
       /\ EndTouching(t)

\* variant: a pass that ends by adding its cards to the mirror
AfterFetchAppending(t, acc, failed, vers) ==
  IF tasks[t].idx < Len(tasks[t].cols)
  THEN /\ StartTask(t, [tasks[t] EXCEPT !.idx = @ + 1, !.acc = acc,
                                        !.failed = failed, !.vers = vers])
       /\ UNCHANGED <<cards, cache, done>>
  ELSE /\ cards' = IF mounted THEN cards \o acc ELSE cards
       /\ cache' = Stored(acc)
       /\ done' = [kind |-> tasks[t].kind, cols |-> tasks[t].cols,
                   failed |-> failed, vers |-> vers, result |-> acc]
       /\ EndTouching(t)

\* variant: a pass that drops its result when a pass that has read a newer
\* backend state has completed in the meantime
AfterFetchGuarded(t, acc, failed, vers) ==
  IF tasks[t].idx < Len(tasks[t].cols)
  THEN /\ StartTask(t, [tasks[t] EXCEPT !.idx = @ + 1, !.acc = acc,
                                        !.failed = failed, !.vers = vers])
       /\ UNCHANGED <<cards, cache, done>>
  ELSE IF \E v \in vers : \E w \in done.vers : v < w
       THEN /\ StartTask(t, NoTask)
            /\ UNCHANGED <<cards, cache, done>>
       ELSE /\ cards' = IF mounted THEN acc ELSE cards
            /\ cache' = Stored(acc)
            /\ done' = [kind |-> tasks[t].kind, cols |-> tasks[t].cols,
                        failed |-> failed, vers |-> vers, result |-> acc]
            /\ EndTouching(t)

\* after the fetch for column idx settled with allCards = acc
AfterFetch(t, acc, failed, vers) ==
  IF tasks[t].idx < Len(tasks[t].cols)
  THEN /\ StartTask(t, [tasks[t] EXCEPT !.idx = @ + 1, !.acc = acc,
                                        !.failed = failed, !.vers = vers])
       /\ UNCHANGED <<cards, cache, done>>
  ELSE \* setCards(allCards); localStorage.setItem('kanban-cards', ...)
       /\ cards' = IF mounted THEN acc ELSE cards
       /\ cache' = Stored(acc)
       /\ done' = [kind |-> tasks[t].kind, cols |-> tasks[t].cols,
                   failed |-> failed, vers |-> vers, result |-> acc]
       /\ EndTouching(t)

\* variant: the cards of a column are put in front of those fetched so far
FetchOkPrepending(t, shape) ==
  /\ tasks[t].pc = "fetch"
  /\ LET colId == tasks[t].cols[tasks[t].idx]
         list == SrvCardsIn(srvCards, colId)
     IN  /\ colId \in SrvColumnIds
         /\ shape \in Shapes(list)
         /\ AfterFetch(t,
                FetchedCards(tasks[t].kind, shape, list, colId) \o tasks[t].acc,
                tasks[t].failed,
                tasks[t].vers \cup {srvVer})
  /\ UNCHANGED <<isAuthenticated, mounted, userRole, memberRole, columns, boardId,
                 uiVars, loadTimer, cardsTimer, srvVars, cmdVars, nAuth, nProfile, viewVars, session, now, nFail>>

\* cards.getAll(column.id) returns
FetchOk(t, shape) ==
  /\ tasks[t].pc = "fetch"
  /\ LET colId == tasks[t].cols[tasks[t].idx]
         list == SrvCardsIn(srvCards, colId)
     IN  /\ colId \in SrvColumnIds
         /\ shape \in Shapes(list)
         /\ AfterFetch(t,
                tasks[t].acc \o FetchedCards(tasks[t].kind, shape, list, colId),
                tasks[t].failed,
                tasks[t].vers \cup {srvVer})
  /\ UNCHANGED <<isAuthenticated, mounted, userRole, memberRole, columns, boardId,
                 uiVars, loadTimer, cardsTimer, srvVars, cmdVars, nAuth, nProfile, viewVars, session, now, nFail>>

\* variant: a fetch that throws ends the pass, the mirror is kept
FetchFailAborting(t) ==
  /\ tasks[t].pc = "fetch"
  /\ LET colId == tasks[t].cols[tasks[t].idx]
     IN  IF colId \in SrvColumnIds
         THEN nFail < MaxFailures /\ nFail' = nFail + 1
         ELSE UNCHANGED nFail
  /\ StartTask(t, NoTask)
  /\ UNCHANGED <<isAuthenticated, mounted, userRole, memberRole, columns, boardId,
                 cards, cache, done,
                 uiVars, loadTimer, cardsTimer, srvVars, cmdVars, nAuth, nProfile, viewVars, session, now>>

\* cards.getAll(column.id) throws: logged, the loop continues
FetchFail(t) ==
  /\ tasks[t].pc = "fetch"
  /\ LET colId == tasks[t].cols[tasks[t].idx]
     IN  /\ IF colId \in SrvColumnIds
            THEN nFail < MaxFailures /\ nFail' = nFail + 1
            ELSE UNCHANGED nFail
         /\ AfterFetch(t, tasks[t].acc, tasks[t].failed \cup {colId}, tasks[t].vers)
  /\ UNCHANGED <<isAuthenticated, mounted, userRole, memberRole, columns, boardId,
                 uiVars, loadTimer, cardsTimer, srvVars, cmdVars, nAuth, nProfile, viewVars, session, now>>

----------------------------------------------------------------------------
(* Commands.  The board, its columns and its modals are rendered only while *)
(* the component is mounted and isAuthenticated is true.                    *)

BoardRendered == mounted /\ isAuthenticated

Command(name, denied) ==
  /\ nCmd < MaxCommands
  /\ nCmd' = nCmd + 1
  /\ lastCmd' = [name |-> name, denied |-> denied]

InSync == cards = ExpectedMirror(srvCards, ColumnIds(columns))

\* variant: handleCardMove without its canDragCards check
HandleCardMoveUngated(cardId, targetColumnId) ==
  /\ Command("moveCard", FALSE)
  /\ HasFreeSlot
  /\ tasks' = [Touch(tasks, 0) EXCEPT ![FreeSlot] =
            [NoTask EXCEPT !.kind = "move", !.pc = "write",
                           !.cols = ColumnIds(columns), !.role = userRole,
                           !.card = cardId, !.target = targetColumnId,
                           !.sync = InSync,
                           !.clean = (Writers(tasks) = {})]]
  /\ UNCHANGED alerts

\* handleCardMove(cardId, sourceColumnId, targetColumnId)
HandleCardMove(cardId, targetColumnId) ==
  IF ~CanDragCards(userRole, memberRole)
  THEN /\ Command("moveCard", TRUE)
       /\ UNCHANGED <<tasks, alerts>>
  ELSE /\ Command("moveCard", FALSE)
       /\ HasFreeSlot
       /\ tasks' = [Touch(tasks, 0) EXCEPT ![FreeSlot] =
            [NoTask EXCEPT !.kind = "move", !.pc = "write",
                           !.cols = ColumnIds(columns), !.role = userRole,
                           !.card = cardId, !.target = targetColumnId,
                           !.sync = InSync,
                           !.clean = (Writers(tasks) = {})]]
       /\ UNCHANGED alerts

\* variant: the drop handler without its item.columnId !== column.id test
DropUnguarded(i, targetColumnId) ==
  /\ BoardRendered
  /\ i \in 1..Len(cards)
  /\ MatchesFilters(cards[i], searchQuery, activeFilters)
  /\ cards[i].columnId \in SeqToSet(ColumnIds(columns))
  /\ targetColumnId \in SeqToSet(ColumnIds(columns))
  /\ HandleCardMove(cards[i].id, targetColumnId)
  /\ UNCHANGED <<isAuthenticated, mounted, userRole, memberRole, columns, boardId,
                 cards, cache, uiVars, loadTimer, cardsTimer, srvVars, nAuth, nProfile, viewVars, session, now,
                 nFail, done>>

\* BoardColumn drop: a card shown in one column is dropped on a column
Drop(i, targetColumnId) ==
  /\ BoardRendered
  /\ i \in 1..Len(cards)
  /\ MatchesFilters(cards[i], searchQuery, activeFilters)
  /\ cards[i].columnId \in SeqToSet(ColumnIds(columns))
  /\ targetColumnId \in SeqToSet(ColumnIds(columns))
  /\ IF cards[i].columnId # targetColumnId
     THEN HandleCardMove(cards[i].id, targetColumnId)
     ELSE /\ Command("dropSameColumn", FALSE)
          /\ UNCHANGED <<tasks, alerts>>
  /\ UNCHANGED <<isAuthenticated, mounted, userRole, memberRole, columns, boardId,
                 cards, cache, uiVars, loadTimer, cardsTimer, srvVars, nAuth, nProfile, viewVars, session, now,
                 nFail, done>>

\* variant: handleCardMove ends after cards.move without its reload
MoveWriteOkNoReload(t) ==
  /\ tasks[t].kind = "move"
  /\ tasks[t].pc = "write"
  /\ tasks[t].card \in DOMAIN srvCards
  /\ tasks[t].target \in SrvColumnIds
  /\ srvCards' = [srvCards EXCEPT ![tasks[t].card].column_id = tasks[t].target]
  /\ srvVer' = srvVer + 1
  /\ StartTask(t, NoTask)
  /\ UNCHANGED <<isAuthenticated, mounted, userRole, memberRole, columns, boardId,
                 cards, cache, uiVars, loadTimer, cardsTimer, srvKind, cmdVars,
                 nAuth, nProfile, viewVars, session, now, nFail, done>>

\* cards.move(cardId, targetColumnId) returns
MoveWriteOk(t) ==
  /\ tasks[t].kind = "move"
  /\ tasks[t].pc = "write"
  /\ tasks[t].card \in DOMAIN srvCards
  /\ tasks[t].target \in SrvColumnIds
  /\ srvCards' = [srvCards EXCEPT ![tasks[t].card].column_id = tasks[t].target]
  /\ srvVer' = srvVer + 1
  /\ IF Len(tasks[t].cols) > 0
     THEN StartTask(t, [tasks[t] EXCEPT !.pc = "fetch", !.idx = 1])
     ELSE StartTask(t, NoTask)
  /\ UNCHANGED <<isAuthenticated, mounted, userRole, memberRole, columns, boardId,
                 cards, cache, uiVars, loadTimer, cardsTimer, srvKind, cmdVars,
                 nAuth, nProfile, viewVars, session, now, nFail, done>>

\* a write the backend rejects, or one of the requests that may fail
WriteFails(t) ==
  IF \/ tasks[t].target \notin SrvColumnIds
     \/ (tasks[t].kind = "move" /\ tasks[t].card \notin DOMAIN srvCards)
     \/ (tasks[t].kind = "create" /\ ~CanCreate(srvCards))
  THEN UNCHANGED nFail
  ELSE nFail < MaxFailures /\ nFail' = nFail + 1

\* cards.move throws: logged only
MoveWriteFail(t) ==
  /\ tasks[t].kind = "move"
  /\ tasks[t].pc = "write"
  /\ WriteFails(t)
  /\ StartTask(t, NoTask)
  /\ UNCHANGED <<isAuthenticated, mounted, userRole, memberRole, columns, boardId,
                 cards, cache, uiVars, loadTimer, cardsTimer, srvVars, cmdVars,
                 nAuth, nProfile, viewVars, session, now, done>>

\* handleAddCard(columnId)
HandleAddCard(columnId) ==
  /\ BoardRendered
  /\ columnId \in SeqToSet(ColumnIds(columns))
  /\ IF ~isAuthenticated
     THEN /\ Command("addCard", TRUE)
          /\ UNCHANGED <<selectedColumnId, showAddCardModal>>
     ELSE IF ~CanCreateCards(userRole, memberRole)
     THEN /\ Command("addCard", TRUE)
          /\ UNCHANGED <<selectedColumnId, showAddCardModal>>
     ELSE /\ Command("addCard", FALSE)
          /\ selectedColumnId' = columnId
          /\ showAddCardModal' = TRUE
  /\ UNCHANGED <<isAuthenticated, mounted, userRole, memberRole, columns, boardId,
                 cards, cache, searchQuery, activeFilters, loadTimer, cardsTimer,
                 tasks, srvVars, alerts, nAuth, nProfile, viewVars, session, now, nFail, done>>

\* AddCardModal onClose
CloseAddCardModal ==
  /\ BoardRendered
  /\ showAddCardModal
  /\ showAddCardModal' = FALSE
  /\ selectedColumnId' = Null
  /\ UNCHANGED <<isAuthenticated, mounted, userRole, memberRole, columns, boardId,
                 cards, cache, searchQuery, activeFilters, loadTimer, cardsTimer,
                 tasks, srvVars, cmdVars, nAuth, nProfile, viewVars, session, now, nFail, done>>

SanitizePriority(p) ==
  IF ToLowerCase(Or(p, "")) \in SeqToSet(Priorities) THEN ToLowerCase(p) ELSE "medium"

\* variant: the title and the priority are sent as they were entered
BuildPayloadAsEntered(newCard, chosenColumnId) ==
  [title |-> Or(newCard.title, ""),
   description |-> Trim(Or(newCard.description, "")),
   column_id |-> chosenColumnId,
   priority |-> Or(newCard.priority, "medium")]

\* the payload handleSaveCard builds for cards.create
BuildPayload(newCard, chosenColumnId) ==
  [title |-> Or(Trim(Or(newCard.title, "")), "Untitled Card"),
   description |-> Trim(Or(newCard.description, "")),
   column_id |-> chosenColumnId,
   priority |-> SanitizePriority(newCard.priority)]

ChosenColumnId(newCard) ==
  Or(newCard.columnId,
     Or(newCard.column_id,
        Or(selectedColumnId, IF Len(columns) > 0 THEN columns[1].id ELSE Undefined)))

\* the card data the AddCardModal may hand over
NewCards ==
  { [columnId |-> Undefined, column_id |-> Undefined, title |-> "  ",
     description |-> " d ", priority |-> "Bogus"],
    [columnId |-> "B", column_id |-> Undefined, title |-> " Fix ",
     description |-> Undefined, priority |-> "HIGH"] }

\* further card data a caller of handleSaveCard may hand over
CardInputs ==
  NewCards \cup
  { [columnId |-> Undefined, column_id |-> "B", title |-> "Alpha",
     description |-> "", priority |-> "Urgent"],
    [columnId |-> "", column_id |-> Null, title |-> Undefined,
     description |-> Undefined, priority |-> Undefined],
    [columnId |-> "A", column_id |-> "B", title |-> "",
     description |-> "first", priority |-> "low"] }

\* variant: handleSaveCard without its chosenColumnId test
HandleSaveCardNoCheck(newCard) ==
  /\ BoardRendered
  /\ Command("saveCard", FALSE)
  /\ IF FALSE
     THEN /\ alerts' = alerts + 1
          /\ UNCHANGED tasks
     ELSE /\ HasFreeSlot
          /\ tasks' = [Touch(tasks, 0) EXCEPT ![FreeSlot] =
               [NoTask EXCEPT !.kind = "create", !.pc = "write",
                              !.cols = ColumnIds(columns), !.role = userRole,
                              !.target = ChosenColumnId(newCard),
                              !.payload = BuildPayload(newCard, ChosenColumnId(newCard)),
                              !.sync = InSync,
                              !.clean = (Writers(tasks) = {})]]
          /\ UNCHANGED alerts
  /\ UNCHANGED <<isAuthenticated, mounted, userRole, memberRole, columns, boardId,
                 cards, cache, uiVars, loadTimer, cardsTimer, srvVars, nAuth, nProfile, viewVars, session, now,
                 nFail, done>>

\* handleSaveCard(newCard)
HandleSaveCard(newCard) ==
  /\ BoardRendered
  /\ Command("saveCard", FALSE)
  /\ IF ~Truthy(ChosenColumnId(newCard))
     THEN /\ alerts' = alerts + 1
          /\ UNCHANGED tasks
     ELSE /\ HasFreeSlot
          /\ tasks' = [Touch(tasks, 0) EXCEPT ![FreeSlot] =
               [NoTask EXCEPT !.kind = "create", !.pc = "write",
                              !.cols = ColumnIds(columns), !.role = userRole,
                              !.target = ChosenColumnId(newCard),
                              !.payload = BuildPayload(newCard, ChosenColumnId(newCard)),
                              !.sync = InSync,
                              !.clean = (Writers(tasks) = {})]]
          /\ UNCHANGED alerts
  /\ UNCHANGED <<isAuthenticated, mounted, userRole, memberRole, columns, boardId,
                 cards, cache, uiVars, loadTimer, cardsTimer, srvVars, nAuth, nProfile, viewVars, session, now,
                 nFail, done>>

\* toClient(created)
ToClient(card, chosenColumnId, payload) ==
  [id |-> card.id,
   columnId |-> Or(card.column_id, chosenColumnId),
   title |-> card.title,
   description |-> Or(card.description, Or(payload.description, "")),
   priority |-> Or(card.priority, Or(payload.priority, "medium")),
   assignedTo |-> card.assigned_to,
   dueDate |-> card.due_date,
   labels |-> card.labels]

\* the forms of the answer of cards.create
CreateResponses == {"card", "envelope", "ack"}

\* cards.create(chosenColumnId, payload) returns
CreateWriteOk(t, resp) ==
  /\ tasks[t].kind = "create"
  /\ tasks[t].pc = "write"
  /\ tasks[t].target \in SrvColumnIds
  /\ CanCreate(srvCards)
  /\ resp \in CreateResponses
  /\ LET p == tasks[t].payload
         created == SrvCard(FreshCardId(srvCards), tasks[t].target, p.title,
                            p.description, p.priority)
     IN  /\ srvCards' = (FreshCardId(srvCards) :> created) @@ srvCards
         /\ srvVer' = srvVer + 1
         /\ cards' = IF resp # "ack" /\ mounted
                     THEN Append(cards, ToClient(created, tasks[t].target, p))
                     ELSE cards
  /\ tasks' = [Touch(tasks, t) EXCEPT ![t] =
                  IF Len(tasks[t].cols) > 0
                  THEN [tasks[t] EXCEPT !.pc = "fetch", !.idx = 1,
                                        !.card = FreshCardId(srvCards)]
                  ELSE NoTask]
  /\ UNCHANGED <<isAuthenticated, mounted, userRole, memberRole, columns, boardId,
                 cache, uiVars, loadTimer, cardsTimer, srvKind, cmdVars, nAuth, nProfile, viewVars, session, now,
                 nFail, done>>

\* cards.create throws: alert('Failed to create card: ...')
CreateWriteFail(t) ==
  /\ tasks[t].kind = "create"
  /\ tasks[t].pc = "write"
  /\ WriteFails(t)
  /\ alerts' = alerts + 1
  /\ StartTask(t, NoTask)
  /\ UNCHANGED <<isAuthenticated, mounted, userRole, memberRole, columns, boardId,
                 cards, cache, uiVars, loadTimer, cardsTimer, srvVars, nCmd,
                 lastCmd, nAuth, nProfile, viewVars, session, now, done>>

----------------------------------------------------------------------------
(* Column commands: local state only *)

FreshColumnId ==
  LET free == SelectSeq(NewColumnIds, LAMBDA id : id \notin SeqToSet(ColumnIds(columns)))
  IN  Head(free)

\* the columns the AddColumnModal may hand over
NewColumns ==
  { [id |-> FreshColumnId, title |-> "New", status |-> "todo", order |-> o] : o \in {0, 3} }

\* variant: a setColumns that does not re-run the loadCards effect
SetColumnsNoPass(cols) ==
  /\ columns' = SortByOrder(cols)
  /\ UNCHANGED cardsTimer

\* setColumns of a command, followed by the render's in-place
\* columns.sort((a, b) => a.order - b.order)
SetColumns(cols) ==
  /\ columns' = SortByOrder(cols)
  /\ cardsTimer' = TRUE

\* handleSaveColumn(newColumn)
HandleSaveColumn(newColumn) ==
  /\ BoardRendered
  /\ IF ~CanCreateColumns(userRole, memberRole)
     THEN /\ Command("createColumn", TRUE)
          /\ UNCHANGED <<columns, cardsTimer>>
     ELSE /\ Command("createColumn", FALSE)
          /\ SetColumns(Append(columns, newColumn))
  /\ UNCHANGED <<isAuthenticated, mounted, userRole, memberRole, boardId, cards,
                 cache, uiVars, loadTimer, tasks, srvVars, alerts, nAuth, nProfile, viewVars, session, now, nFail,
                 done>>

\* handleEditColumn(columnId, updates), updates = {title}
HandleEditColumn(columnId, title) ==
  /\ BoardRendered
  /\ columnId \in SeqToSet(ColumnIds(columns))
  /\ IF ~CanEditColumns(userRole, memberRole)
     THEN /\ Command("editColumn", TRUE)
          /\ UNCHANGED <<columns, cardsTimer>>
     ELSE /\ Command("editColumn", FALSE)
          /\ SetColumns([i \in 1..Len(columns) |->
                          IF columns[i].id = columnId
                          THEN [columns[i] EXCEPT !.title = title]
                          ELSE columns[i]])
  /\ UNCHANGED <<isAuthenticated, mounted, userRole, memberRole, boardId, cards,
                 cache, uiVars, loadTimer, tasks, srvVars, alerts, nAuth, nProfile, viewVars, session, now, nFail,
                 done>>

\* handleDeleteColumn(columnId)
HandleDeleteColumn(columnId) ==
  /\ BoardRendered
  /\ columnId \in SeqToSet(ColumnIds(columns))
  /\ IF ~CanDeleteColumns(userRole, memberRole)
     THEN /\ Command("deleteColumn", TRUE)
          /\ UNCHANGED <<columns, cardsTimer, cards, tasks>>
     ELSE /\ Command("deleteColumn", FALSE)
          /\ tasks' = Touch(tasks, 0)
          /\ LET firstColumnId == columns[1].id
             IN  cards' = IF firstColumnId # columnId
                          THEN [i \in 1..Len(cards) |->
                                 IF cards[i].columnId = columnId
                                 THEN [cards[i] EXCEPT !.columnId = firstColumnId]
                                 ELSE cards[i]]
                          ELSE cards
          /\ SetColumns(SelectSeq(columns, LAMBDA col : col.id # columnId))
  /\ UNCHANGED <<isAuthenticated, mounted, userRole, memberRole, boardId, cache,
                 uiVars, loadTimer, srvVars, alerts, nAuth, nProfile, viewVars, session, now, nFail, done>>

----------------------------------------------------------------------------
(* Search and filter controls of the board header *)

\* onSearchChange={setSearchQuery}
SetSearchQuery(query) ==
  /\ BoardRendered
  /\ searchQuery' = query
  /\ UNCHANGED <<isAuthenticated, mounted, userRole, memberRole, columns, boardId,
                 cards, cache, selectedColumnId, showAddCardModal, activeFilters,
                 loadTimer, cardsTimer, tasks, srvVars, alerts, cmdVars, nAuth,
                 nFail, nProfile, done, viewVars, session, now>>

\* onFilterChange={setActiveFilters}
SetActiveFilters(filters) ==
  /\ BoardRendered
  /\ activeFilters' = filters
  /\ UNCHANGED <<isAuthenticated, mounted, userRole, memberRole, columns, boardId,
                 cards, cache, selectedColumnId, showAddCardModal, searchQuery,
                 loadTimer, cardsTimer, tasks, srvVars, alerts, cmdVars, nAuth,
                 nFail, nProfile, done, viewVars, session, now>>

\* the button of the empty state: setSearchQuery(''); setActiveFilters({})
ClearFilters ==
  /\ BoardRendered
  /\ Len(FilteredCards(cards, searchQuery, activeFilters)) = 0
  /\ searchQuery # ""
  /\ searchQuery' = ""
  /\ activeFilters' = NoFilters
  /\ UNCHANGED <<isAuthenticated, mounted, userRole, memberRole, columns, boardId,
                 cards, cache, selectedColumnId, showAddCardModal,
                 loadTimer, cardsTimer, tasks, srvVars, alerts, cmdVars, nAuth,
                 nFail, nProfile, done, viewVars, session, now>>

\* twelve hours pass
Tick ==
  /\ now < ClockStart + MaxTicks
  /\ now' = now + 1
  /\ UNCHANGED <<isAuthenticated, mounted, userRole, memberRole, columns, boardId,
                 cards, cache, uiVars, loadTimer, cardsTimer, tasks, srvVars,
                 alerts, cmdVars, nAuth, nFail, nProfile, done, viewVars, session>>

----------------------------------------------------------------------------
(* CardDetails: tracking and saving changes *)

\* the keys trackChange may be called with: those of the change handlers of
\* the component and the other keys the backend accepts
PendingKeys ==
  {"title", "description", "priority", "position", "column_id",
   "assignedMembers", "dueDate", "labels", "checklist"}

\* the values a key may be given
PendingValues == {"v", Undefined}

BackendSupportedFields == {"title", "description", "priority", "position", "column_id"}

\* variant: every pending key with a value is sent
SanitizedPayloadAll(pending) ==
  [k \in {f \in DOMAIN pending : pending[f] # Undefined} |-> pending[k]]

\* sanitizedPayload
SanitizedPayload(pending) ==
  [k \in {f \in DOMAIN pending :
            f \in BackendSupportedFields /\ pending[f] # Undefined}
     |-> pending[k]]

\* trackChange(field, value)
TrackChange(field, value) ==
  /\ viewer.pc \in {"idle", "import", "update"}
  /\ viewer.nChanges < MaxChanges
  /\ viewer' = [viewer EXCEPT
                  !.pendingChanges = (field :> value) @@ viewer.pendingChanges,
                  !.hasUnsavedChanges = TRUE,
                  !.nChanges = @ + 1]
  /\ UNCHANGED <<boardVars, updateLog, session>>

\* the handler ends with onSave, setPendingChanges({}), setHasUnsavedChanges(false)
SaveFinished(v) ==
  [v EXCEPT !.pc = "idle", !.pendingChanges = NoChanges,
            !.hasUnsavedChanges = FALSE, !.isSaving = FALSE,
            !.closure = NoChanges, !.saved = @ + 1]

\* handleSaveChanges(), up to its first await
HandleSaveChanges ==
  /\ viewer.pc = "idle"
  /\ viewer.nSaves < MaxSaves
  /\ LET v == [viewer EXCEPT !.nSaves = @ + 1]
     IN  viewer' =
           IF ~v.hasUnsavedChanges \/ ~Truthy(v.cardId) THEN v
           ELSE IF DOMAIN v.pendingChanges = {} THEN SaveFinished(v)
           ELSE IF ~IsValidUUID(v.cardId) THEN v
           ELSE [v EXCEPT !.pc = "import", !.isSaving = TRUE,
                          !.closure = v.pendingChanges]
  /\ UNCHANGED <<boardVars, updateLog, session>>

\* import('../../utils/realApiService') resolves: the payload is built and
\* cards.update is called when it has a key
ImportDone ==
  /\ viewer.pc = "import"
  /\ LET payload == SanitizedPayload(viewer.closure)
     IN  IF DOMAIN payload # {}
         THEN /\ updateLog' = Append(updateLog,
                    [id |-> viewer.cardId, payload |-> payload,
                     pending |-> viewer.closure])
              /\ viewer' = [viewer EXCEPT !.pc = "update"]
         ELSE /\ viewer' = SaveFinished(viewer)
              /\ UNCHANGED updateLog
  /\ UNCHANGED <<boardVars, session>>

\* import('../../utils/realApiService') rejects: the same catch as for a
\* rejected cards.update
ImportFail ==
  /\ viewer.pc = "import"
  /\ viewer' = [viewer EXCEPT !.pc = "idle", !.isSaving = FALSE,
                              !.closure = NoChanges, !.alerts = @ + 1]
  /\ UNCHANGED <<boardVars, updateLog, session>>

\* cards.update resolves
UpdateOk ==
  /\ viewer.pc = "update"
  /\ viewer' = SaveFinished(viewer)
  /\ UNCHANGED <<boardVars, updateLog, session>>

\* variant: a rejected cards.update drops the pending changes
UpdateFailDropping ==
  /\ viewer.pc = "update"
  /\ viewer' = [viewer EXCEPT !.pc = "idle", !.isSaving = FALSE,
                              !.pendingChanges = NoChanges,
                              !.hasUnsavedChanges = FALSE,
                              !.closure = NoChanges, !.alerts = @ + 1]
  /\ UNCHANGED <<boardVars, updateLog, session>>

\* cards.update rejects: alert('Failed to save changes. Please try again.')
UpdateFail ==
  /\ viewer.pc = "update"
  /\ viewer' = [viewer EXCEPT !.pc = "idle", !.isSaving = FALSE,
                              !.closure = NoChanges, !.alerts = @ + 1]
  /\ UNCHANGED <<boardVars, updateLog, session>>

\* handleDiscardChanges(): window.location.reload() starts the page again
HandleDiscardChanges ==
  /\ viewer.pc \in {"idle", "import", "update"}
  /\ viewer.hasUnsavedChanges
  /\ viewer' = [viewer EXCEPT !.pc = "idle", !.pendingChanges = NoChanges,
                              !.hasUnsavedChanges = FALSE, !.isSaving = FALSE,
                              !.closure = NoChanges]
  /\ UNCHANGED <<boardVars, updateLog, session>>

----------------------------------------------------------------------------
(* CardDetails: loading the card *)

\* the cleanup of the loader effect: didCancel = true
Cancelled(runs) == [i \in 1..Len(runs) |-> [runs[i] EXCEPT !.didCancel = TRUE]]

\* the sequence without its i-th element
Without(seq, i) == SubSeq(seq, 1, i - 1) \o SubSeq(seq, i + 1, Len(seq))

\* the loader effect runs: setLoadError(null), then loadCardData() up to its
\* first await
LoaderEffect ==
  /\ viewer.pc = "idle"
  /\ viewer.effect
  /\ viewer' =
       LET v == [viewer EXCEPT !.effect = FALSE, !.loadError = Null,
                               !.isLoading = TRUE]
       IN  IF v.navCard
           THEN [v EXCEPT !.cardData = "loaded", !.cardId = v.navId,
                          !.isLoading = FALSE]
           ELSE IF Truthy(v.param)
           THEN IF ~IsValidUUID(v.param)
                THEN [v EXCEPT
                        !.loadError = "Invalid card ID format. This card may not exist in the backend.",
                        !.isLoading = FALSE]
                ELSE [v EXCEPT !.runs = Append(@, [pc |-> "import",
                                                   didCancel |-> FALSE])]
           ELSE [v EXCEPT !.cardData = "placeholder",
                          !.cardId = Or(v.param, "1"),
                          !.isLoading = FALSE]
  /\ UNCHANGED <<boardVars, updateLog, session>>

\* import('../../utils/realApiService') of run i resolves: cards.getById and
\* the 10 s timer are started
LoadImportOk(i) ==
  /\ i \in 1..Len(viewer.runs)
  /\ viewer.runs[i].pc = "import"
  /\ viewer' = [viewer EXCEPT !.runs[i].pc = "getById"]
  /\ UNCHANGED <<boardVars, updateLog, session>>

\* cards.getById of run i resolves with a card in result.data
GetByIdOk(i) ==
  /\ i \in 1..Len(viewer.runs)
  /\ viewer.runs[i].pc = "getById"
  /\ viewer' =
       IF viewer.runs[i].didCancel
       THEN [viewer EXCEPT !.runs = Without(@, i)]
       ELSE [viewer EXCEPT !.runs = Without(@, i), !.cardData = "loaded",
                           !.cardId = viewer.param, !.isLoading = FALSE]
  /\ UNCHANGED <<boardVars, updateLog, session>>

\* what the catch of loadCardData can receive: the import or cards.getById
\* rejects (with or without a message), the 10 s timer wins the race,
\* cards.getById resolves without data
LoadFailures(pc) ==
  IF pc = "import"
  THEN {"Failed to load card"}
  ELSE {"Failed to load card", "Network Error", "Request timed out",
        "No card data found"}

\* run i ends in the catch: setLoadError(error.message || 'Failed to load card')
LoadFail(i, message) ==
  /\ i \in 1..Len(viewer.runs)
  /\ message \in LoadFailures(viewer.runs[i].pc)
  /\ viewer' =
       IF viewer.runs[i].didCancel
       THEN [viewer EXCEPT !.runs = Without(@, i)]
       ELSE [viewer EXCEPT !.runs = Without(@, i), !.loadError = message,
                           !.isLoading = FALSE]
  /\ UNCHANGED <<boardVars, updateLog, session>>

\* the Retry button of the error view: handleRetry() changes retryCount, the
\* effect is cleaned up and runs again
HandleRetry ==
  /\ viewer.pc = "idle"
  /\ ~viewer.effect
  /\ ~viewer.isLoading
  /\ viewer.loadError # Null
  /\ viewer.retryCount < MaxRetries
  /\ viewer' = [viewer EXCEPT !.retryCount = @ + 1, !.effect = TRUE,
                              !.runs = Cancelled(@)]
  /\ UNCHANGED <<boardVars, updateLog, session>>

\* the card viewer is left: the effect is cleaned up
CloseViewer ==
  /\ viewer.pc = "idle"
  /\ viewer' = [viewer EXCEPT !.pc = "closed", !.effect = FALSE,
                              !.runs = Cancelled(@)]
  /\ UNCHANGED <<boardVars, updateLog, session>>

----------------------------------------------------------------------------
(* Specifications *)

AnyColumnId == SrvColumnIds \cup SeqToSet(NewColumnIds)
AnyShape == {"array", "envelope", "single"}

ProfileStep == \E r \in Roles : SetUserRole(r)
LoadOkStep == \E t \in Slots : LoadStepOk(t)
LoadFailStep == \E t \in Slots : LoadStepFail(t)
FetchOkStep == \E t \in Slots : \E shape \in AnyShape : FetchOk(t, shape)
FetchFailStep == \E t \in Slots : FetchFail(t)
DropStep == \E i \in DOMAIN cards : \E c \in AnyColumnId : Drop(i, c)
MoveOkStep == \E t \in Slots : MoveWriteOk(t)
MoveFailStep == \E t \in Slots : MoveWriteFail(t)
AddCardStep == \E c \in AnyColumnId : HandleAddCard(c)
SaveCardStep == \E newCard \in NewCards : HandleSaveCard(newCard)
SaveAnyCardStep == \E newCard \in CardInputs : HandleSaveCard(newCard)
CreateOkStep == \E t \in Slots : \E resp \in CreateResponses : CreateWriteOk(t, resp)
CreateFailStep == \E t \in Slots : CreateWriteFail(t)
SaveColumnStep == \E newColumn \in NewColumns : HandleSaveColumn(newColumn)
EditColumnStep == \E c \in AnyColumnId : HandleEditColumn(c, "Renamed")
DeleteColumnStep == \E c \in AnyColumnId : HandleDeleteColumn(c)

\* Reconciliation: an authenticated member assigned to the project works on
\* the board while requests overlap and fail.
Init == \E stored \in {NoCache, Stored(CachedMirror)} : Mounted(TRUE, "assigned", stored, "full", 0)

Next ==
  \/ LoadTimerFire
  \/ CardsTimerFire
  \/ LoadOkStep
  \/ LoadFailStep
  \/ FetchOkStep
  \/ FetchFailStep
  \/ DropStep
  \/ MoveOkStep
  \/ MoveFailStep
  \/ SaveCardStep
  \/ CreateOkStep
  \/ CreateFailStep
  \/ EditColumnStep

Spec == Init /\ [][Next]_vars

\* Card creation: handleSaveCard on a loaded board, with or without a
\* column selected by handleAddCard, and on a board without columns
InitCreate ==
  \E loaded \in BOOLEAN, sel \in {Null, "A", "B"} :
    /\ (~loaded => sel = Null)
    /\ isAuthenticated = TRUE
    /\ mounted = TRUE
    /\ userRole = "member"
    /\ memberRole = "assigned"
    /\ columns = IF loaded
                 THEN SortByOrder([i \in 1..Len(SrvColumns) |-> MapColumn(SrvColumns[i])])
                 ELSE <<>>
    /\ boardId = "board-1"
    /\ cards = ExpectedMirror(InitSrvCards, ColumnIds(columns))
    /\ cache = Stored(cards)
    /\ selectedColumnId = sel
    /\ showAddCardModal = (sel # Null)
    /\ searchQuery = ""
    /\ activeFilters = NoFilters
    /\ loadTimer = FALSE
    /\ cardsTimer = FALSE
    /\ tasks = [t \in Slots |-> NoTask]
    /\ srvCards = InitSrvCards
    /\ srvVer = 0
    /\ srvKind = IF loaded THEN "full" ELSE "nocolumns"
    /\ alerts = 0
    /\ nCmd = 0
    /\ nAuth = 0
    /\ nFail = 0
    /\ nProfile = 0
    /\ lastCmd = [name |-> "none", denied |-> FALSE]
    /\ done = IF loaded
              THEN [kind |-> "cards", cols |-> ColumnIds(columns), failed |-> {},
                    vers |-> {0}, result |-> cards]
              ELSE NoDone
    /\ ViewerClosed
    /\ now = ClockStart
    /\ session = NoSession

NextCreate ==
  \/ SaveAnyCardStep
  \/ CreateOkStep
  \/ CreateFailStep
  \/ FetchOkStep
  \/ FetchFailStep

SpecCreate == InitCreate /\ [][NextCreate]_vars

\* Column list: authentication changes, the load chain, the column commands
\* and the passes of loadCards they schedule, against every kind of
\* backend, among them a board with a column of position 0
InitColumns ==
  \E auth \in BOOLEAN, stored \in {NoCache, Stored(CachedMirror)},
     kind \in SrvKinds \cup {"zero"} :
    Mounted(auth, "assigned", stored, kind, 0)

NextColumns ==
  \/ AuthChange
  \/ LoadTimerFire
  \/ CardsTimerFire
  \/ LoadOkStep
  \/ LoadFailStep
  \/ FetchOkStep
  \/ FetchFailStep
  \/ SaveColumnStep
  \/ EditColumnStep
  \/ DeleteColumnStep

SpecColumns == InitColumns /\ [][NextColumns]_vars

\* Authentication: isAuthenticated changes and the view is left while loads
\* and writes are in flight.  The 50 ms timer, once set, fires unless it is
\* cleared.
InitAuth ==
  \E auth \in BOOLEAN, stored \in {NoCache, Stored(CachedMirror)}, kind \in SrvKinds :
    Mounted(auth, "assigned", stored, kind, 0)

NextAuth ==
  \/ AuthChange
  \/ Unmount
  \/ LoadTimerFire
  \/ CardsTimerFire
  \/ LoadOkStep
  \/ LoadFailStep
  \/ FetchOkStep
  \/ FetchFailStep
  \/ DropStep
  \/ MoveOkStep
  \/ MoveFailStep
  \/ SaveCardStep
  \/ CreateOkStep
  \/ CreateFailStep

SpecAuth == InitAuth /\ [][NextAuth]_vars /\ WF_vars(LoadTimerFire)

\* Permission gating: the role changes while commands are issued.
InitGate == \E mrole \in MemberRoles : Mounted(TRUE, mrole, NoCache, "full", 0)

NextGate ==
  \/ ProfileStep
  \/ LoadTimerFire
  \/ CardsTimerFire
  \/ LoadOkStep
  \/ FetchOkStep
  \/ FetchFailStep
  \/ DropStep
  \/ MoveOkStep
  \/ MoveFailStep
  \/ AddCardStep
  \/ CloseAddCardModal
  \/ SaveCardStep
  \/ CreateOkStep
  \/ CreateFailStep
  \/ SaveColumnStep
  \/ EditColumnStep
  \/ DeleteColumnStep

SpecGate == InitGate /\ [][NextGate]_vars

\* the card viewer is the page shown; the board is not mounted
InitDetails ==
  /\ isAuthenticated = TRUE
  /\ mounted = FALSE
  /\ userRole = "member"
  /\ memberRole = "assigned"
  /\ columns = <<>>
  /\ boardId = Null
  /\ cache \in {NoCache, Stored(CachedMirror)}
  /\ cards = <<>>
  /\ selectedColumnId = Null
  /\ showAddCardModal = FALSE
  /\ searchQuery = ""
  /\ activeFilters = NoFilters
  /\ loadTimer = FALSE
  /\ cardsTimer = FALSE
  /\ tasks = [t \in Slots |-> NoTask]
  /\ srvCards = InitSrvCards
  /\ srvVer = 0
  /\ srvKind = "full"
  /\ alerts = 0
  /\ nCmd = 0
  /\ nAuth = 0
  /\ nFail = 0
  /\ nProfile = 0
  /\ lastCmd = [name |-> "none", denied |-> FALSE]
  /\ done = NoDone
  /\ \E id \in CardDataIds : viewer = OpenViewer(id)
  /\ updateLog = <<>>
  /\ now = ClockStart
  /\ session = NoSession

TrackChangeStep == \E field \in PendingKeys : \E value \in PendingValues : TrackChange(field, value)

NextDetails ==
  \/ TrackChangeStep
  \/ HandleSaveChanges
  \/ ImportDone
  \/ ImportFail
  \/ UpdateOk
  \/ UpdateFail
  \/ HandleDiscardChanges

SpecDetails == InitDetails /\ [][NextDetails]_vars

\* the state of the board while another page is shown
BoardNotShown ==
  /\ isAuthenticated = TRUE
  /\ mounted = FALSE
  /\ userRole = "member"
  /\ memberRole = "assigned"
  /\ columns = <<>>
  /\ boardId = Null
  /\ cache = Stored(CachedMirror)
  /\ cards = <<>>
  /\ selectedColumnId = Null
  /\ showAddCardModal = FALSE
  /\ searchQuery = ""
  /\ activeFilters = NoFilters
  /\ loadTimer = FALSE
  /\ cardsTimer = FALSE
  /\ tasks = [t \in Slots |-> NoTask]
  /\ srvCards = InitSrvCards
  /\ srvVer = 0
  /\ srvKind = "full"
  /\ alerts = 0
  /\ nCmd = 0
  /\ nAuth = 0
  /\ nFail = 0
  /\ nProfile = 0
  /\ lastCmd = [name |-> "none", denied |-> FALSE]
  /\ done = NoDone
  /\ now = ClockStart
  /\ session = NoSession

\* the values of the id parameter of the card viewer's URL
CardIdParams == {ValidCardId, "card-1700000000000", Null}

\* the card viewer has rendered for the first time; its loader effect is due
InitViewer ==
  /\ BoardNotShown
  /\ \E nav \in BOOLEAN : \E id \in CardDataIds : \E param \in CardIdParams :
       /\ ~nav => id = Undefined
       /\ viewer = [NoViewer EXCEPT !.pc = "idle", !.effect = TRUE,
                                    !.navCard = nav, !.navId = id,
                                    !.param = param]
  /\ updateLog = <<>>

LoadImportStep == \E i \in 1..MaxRetries + 1 : LoadImportOk(i)
GetByIdStep == \E i \in 1..MaxRetries + 1 : GetByIdOk(i)

NextViewer ==
  \/ LoaderEffect
  \/ LoadImportStep
  \/ GetByIdStep
  \/ \E i \in 1..MaxRetries + 1 : \E message \in LoadFailures("getById") : LoadFail(i, message)
  \/ HandleRetry
  \/ CloseViewer

SpecViewer == InitViewer /\ [][NextViewer]_vars

\* Session: the calls of SessionService on a page that is loaded again at
\* any time
InitSession == BoardNotShown /\ ViewerClosed

RefreshOkStep == \E newRefreshToken \in {"r2", Undefined} : RefreshOk(newRefreshToken)

NextSession ==
  \/ Reload
  \/ Login
  \/ LoginOk
  \/ LoginFail
  \/ Initialize
  \/ ValidateOk
  \/ ValidateNotOk
  \/ RefreshOkStep
  \/ RefreshNotOk
  \/ Logout
  \/ LogoutOk
  \/ LogoutThrow

SpecSession == InitSession /\ [][NextSession]_vars


\* Rapid moves: the board is loaded (columns A and B, cards c1 and c2 in A)
\* and the user has just dropped c1 on B, so that handleCardMove awaits
\* cards.move; nCmd counts the commands issued from here on.
InitRace ==
  /\ isAuthenticated = TRUE
  /\ mounted = TRUE
  /\ userRole = "member"
  /\ memberRole = "assigned"
  /\ columns = SortByOrder([i \in 1..Len(SrvColumns) |-> MapColumn(SrvColumns[i])])
  /\ boardId = "board-1"
  /\ cards = ExpectedMirror(InitSrvCards, ColumnIds(columns))
  /\ cache = Stored(cards)
  /\ selectedColumnId = Null
  /\ showAddCardModal = FALSE
  /\ searchQuery = ""
  /\ activeFilters = NoFilters
  /\ loadTimer = FALSE
  /\ cardsTimer = FALSE
  /\ tasks = [t \in Slots |->
                IF t = 1
                THEN [NoTask EXCEPT !.kind = "move", !.pc = "write",
                                    !.cols = ColumnIds(columns), !.role = "member",
                                    !.card = "c1", !.target = "B", !.sync = TRUE]
                ELSE NoTask]
  /\ srvCards = InitSrvCards
  /\ srvVer = 0
  /\ srvKind = "full"
  /\ alerts = 0
  /\ nCmd = 0
  /\ nAuth = 0
  /\ nFail = 0
  /\ nProfile = 0
  /\ lastCmd = [name |-> "moveCard", denied |-> FALSE]
  /\ done = [kind |-> "cards", cols |-> ColumnIds(columns), failed |-> {},
             vers |-> {0}, result |-> cards]
  /\ ViewerClosed
  /\ now = ClockStart
  /\ session = NoSession

NextRace ==
  \/ DropStep
  \/ MoveOkStep
  \/ MoveFailStep
  \/ FetchOkStep
  \/ FetchFailStep

SpecRace == InitRace /\ [][NextRace]_vars


\* mirror cards that differ in what the filter looks at
FilterCard(id, title, descr, prio, assignees, due, labels) ==
  [id |-> id, columnId |-> "A", title |-> title, description |-> descr,
   priority |-> prio, assignedTo |-> assignees, dueDate |-> due, labels |-> labels]

FilterCards ==
  { FilterCard("c1", "Alpha", "first", "high", <<"m1">>, "2025-01-10", <<>>),
    FilterCard("c2", "Beta", "", "high", <<"m2">>, Null, <<[name |-> "Fix"]>>),
    FilterCard("c3", "Beta", "", "low", <<"m1", "m2">>, "2025-01-22T12:00", <<>>),
    FilterCard("c4", "Alpha", "", "high", <<"m1">>, Undefined, <<>>),
    FilterCard("c5", "Fix", "first", "medium", <<>>, "2025-01-15", <<>>),
    FilterCard("c6", "Alpha", "", "urgent", <<>>, "soon", <<>>) }

\* the mirrors of at most MaxCards of these cards, no id twice
FilterMirrors ==
  UNION { { m \in [1..n -> FilterCards] :
              \A i, j \in 1..n : m[i].id = m[j].id => i = j } : n \in 0..MaxCards }

SearchQueries == {"", "alp", "FIX"}

FilterChoices ==
  [priority : {<<>>, <<"high">>, <<"low", "urgent">>},
   assignee : {<<>>, <<"m1">>},
   dueDate : {<<>>, <<"overdue">>, <<"today", "this-week">>, <<"this-month">>,
              <<"custom">>, <<"someday">>},
   customDateRange : {NoRange,
                      [present |-> TRUE, start |-> "2025-01-15", end |-> "2025-02-15"]}]

\* the board is shown with its columns and a mirror; nothing is in flight
InitFilter ==
  /\ isAuthenticated = TRUE
  /\ mounted = TRUE
  /\ userRole = "member"
  /\ memberRole = "assigned"
  /\ columns = SortByOrder([i \in 1..Len(SrvColumns) |-> MapColumn(SrvColumns[i])])
  /\ boardId = "board-1"
  /\ cache = NoCache
  /\ cards \in FilterMirrors
  /\ selectedColumnId = Null
  /\ showAddCardModal = FALSE
  /\ searchQuery = ""
  /\ activeFilters = NoFilters
  /\ loadTimer = FALSE
  /\ cardsTimer = FALSE
  /\ tasks = [t \in Slots |-> NoTask]
  /\ srvCards = InitSrvCards
  /\ srvVer = 0
  /\ srvKind = "full"
  /\ alerts = 0
  /\ nCmd = 0
  /\ nAuth = 0
  /\ nFail = 0
  /\ nProfile = 0
  /\ lastCmd = [name |-> "none", denied |-> FALSE]
  /\ done = NoDone
  /\ ViewerClosed
  /\ now = ClockStart
  /\ session = NoSession

SearchStep == \E query \in SearchQueries : SetSearchQuery(query)
FilterStep == \E filters \in FilterChoices : SetActiveFilters(filters)

NextFilter ==
  \/ SearchStep
  \/ FilterStep
  \/ ClearFilters
  \/ Tick

SpecFilter == InitFilter /\ [][NextFilter]_vars



----------------------------------------------------------------------------
(* Vocabulary of the properties *)

Ids(cs) == {cs[i].id : i \in DOMAIN cs}

\* the per-column list the board renders with the current search and facets
Derived(cs, columnId) == GetCardsForColumn(cs, searchQuery, activeFilters, columnId)

\* a command handler was entered in this step
CommandStep(name) == nCmd' = nCmd + 1 /\ lastCmd'.name = name

\* handler t resumed in this step
Progressed(t) ==
  <<tasks'[t].kind, tasks'[t].pc, tasks'[t].idx>> # <<tasks[t].kind, tasks[t].pc, tasks[t].idx>>

\* the card-loading pass of handler t completes in this step
PassCompletes(t) ==
  /\ tasks[t].pc = "fetch"
  /\ tasks[t].idx = Len(tasks[t].cols)
  /\ tasks'[t].kind = "none"

\* the mirror is as the last completed pass left it
AfterReconciliation == done.kind # "none" /\ cards = done.result

----------------------------------------------------------------------------
(* Permission gating *)

\* C1: for role viewer, whatever the assignment, no step of a mutation
\* command (createCard including its save step, moveCard, createColumn,
\* editColumn, deleteColumn) changes the card mirror.
C1_ViewerLeavesMirror ==
  [][ ( \/ (nCmd' = nCmd + 1 /\ userRole = "viewer")
        \/ \E t \in Slots : tasks[t].role = "viewer" /\ Progressed(t) )
      => cards' = cards ]_vars

\* a command entered while the policy denies the capability it needs
DeniedCommandStep ==
  \/ CommandStep("addCard") /\ ~Capabilities(userRole, memberRole).createCard
  \/ CommandStep("moveCard") /\ ~Capabilities(userRole, memberRole).dragCard
  \/ CommandStep("createColumn") /\ ~Capabilities(userRole, memberRole).createColumn
  \/ CommandStep("editColumn") /\ ~Capabilities(userRole, memberRole).editColumn
  \/ CommandStep("deleteColumn") /\ ~Capabilities(userRole, memberRole).deleteColumn

PolicyTable(role, assigned) ==
  CASE role = "viewer" ->
         [createCard |-> FALSE, editCard |-> FALSE, deleteCard |-> FALSE,
          createColumn |-> FALSE, editColumn |-> FALSE, deleteColumn |-> FALSE,
          inviteMember |-> FALSE, dragCard |-> FALSE]
    [] role = "member" ->
         [createCard |-> assigned, editCard |-> assigned, deleteCard |-> assigned,
          createColumn |-> assigned, editColumn |-> assigned,
          deleteColumn |-> assigned, inviteMember |-> FALSE, dragCard |-> assigned]
    [] role \in {"admin", "owner"} ->
         [createCard |-> TRUE, editCard |-> TRUE, deleteCard |-> TRUE,
          createColumn |-> TRUE, editColumn |-> TRUE, deleteColumn |-> TRUE,
          inviteMember |-> TRUE, dragCard |-> TRUE]

\* C3: the capability set of the current role and assignment is the one of
\* the policy table: viewer nothing, member everything but inviteMember when
\* assigned, admin and owner everything.
C3_CapabilitySet ==
  userRole \in Roles =>
    Capabilities(userRole, memberRole) = PolicyTable(userRole, memberRole = "assigned")

\* an admin who is not assigned to the project has deleted a column
C3_Witness ==
  /\ userRole = "admin"
  /\ memberRole = "not-assigned"
  /\ lastCmd = [name |-> "deleteColumn", denied |-> FALSE]
  /\ Len(columns) = 1

----------------------------------------------------------------------------
(* Reconciliation *)

IdSeq(cs) == [i \in DOMAIN cs |-> cs[i].id]

\* C4: with A and B both loaded by the previous pass, a pass over <<A, B>>
\* that fails for A and succeeds for B leaves in the mirror exactly the
\* cards the backend returned for B (B is fetched last, in this step).
C4_PartialFailureReplaces ==
  [][ ( /\ \E t \in Slots : PassCompletes(t)
        /\ mounted
        /\ done.kind # "none" /\ done.cols = <<"A", "B">> /\ done.failed = {}
        /\ done'.cols = <<"A", "B">> /\ done'.failed = {"A"} )
      => IdSeq(cards') = IdSeq(SrvCardsIn(srvCards, "B")) ]_vars

\* C5: after a reconciliation, the derived list of every column is exactly
\* the mirror's cards with that columnId, and no card id is in the derived
\* lists of two different columns.
C5_DerivedListsPartition ==
  AfterReconciliation =>
    /\ \A c \in SeqToSet(ColumnIds(columns)) :
         Derived(cards, c) = SelectSeq(cards, LAMBDA card : card.columnId = c)
    /\ \A c, d \in SeqToSet(ColumnIds(columns)) :
         c # d => Ids(Derived(cards, c)) \cap Ids(Derived(cards, d)) = {}

\* C6: after a reconciliation no two cards of the mirror have the same id.
C6_NoDuplicateIds ==
  AfterReconciliation =>
    \A i, j \in DOMAIN cards : cards[i].id = cards[j].id => i = j

\* C7: a permitted move of X to another column B, issued on a mirror that
\* agreed with the backend, with nothing else writing in between and every
\* fetch of its reload succeeding, ends with X in B only, the source list
\* one card shorter and B's list one card longer; other lists are as before.
C7_MoveThenReload ==
  [][ \A t \in Slots :
        ( /\ tasks[t].kind = "move" /\ PassCompletes(t)
          /\ mounted
          /\ tasks[t].clean /\ tasks[t].sync
          /\ done'.failed = {} )
        => LET X == tasks[t].card
               B == tasks[t].target
           IN  /\ \A i \in DOMAIN cards' : cards'[i].id = X => cards'[i].columnId = B
               /\ \A c \in SeqToSet(tasks[t].cols) :
                    /\ Ids(Derived(cards', c)) =
                         IF c = B THEN Ids(Derived(cards, c)) \cup {X}
                         ELSE Ids(Derived(cards, c)) \ {X}
                    /\ Len(Derived(cards', c)) = Cardinality(Ids(Derived(cards', c))) ]_vars

\* C8: a createCard issued on a mirror that agreed with the backend, with
\* nothing else writing in between and every fetch of its reload succeeding,
\* ends with exactly one card that was not in the mirror before the command,
\* and that card carries the sanitized payload.
C8_CreateRoundTrip ==
  [][ \A t \in Slots :
        ( /\ tasks[t].kind = "create" /\ PassCompletes(t)
          /\ mounted
          /\ tasks[t].clean /\ tasks[t].sync
          /\ done'.failed = {} )
        => LET before == Ids(cards) \ {tasks[t].card}
               new == {i \in DOMAIN cards' : cards'[i].id \notin before}
               p == tasks[t].payload
           IN  /\ Cardinality(new) = 1
               /\ \A i \in new :
                    /\ cards'[i].columnId = tasks[t].target
                    /\ cards'[i].title = p.title
                    /\ cards'[i].description = p.description
                    /\ cards'[i].priority = p.priority
                    /\ cards'[i].title # ""
                    /\ cards'[i].priority \in SeqToSet(Priorities) ]_vars

\* C9: two consecutive passes over the same column list that read the same
\* backend state, every fetch succeeding, set the same mirror.
C9_ReconciliationIdempotent ==
  [][ ( /\ done' # done
        /\ done.kind # "none"
        /\ Cardinality(done.vers) = 1 /\ done'.vers = done.vers
        /\ done'.cols = done.cols
        /\ done.failed = {} /\ done'.failed = {} )
      => done'.result = done.result ]_vars

----------------------------------------------------------------------------
(* Authentication *)

Cleared ==
  /\ cards = <<>>
  /\ columns = <<>>
  /\ boardId = Null
  /\ cache = NoCache

\* C10: after isAuthenticated has changed from true to false in a mounted
\* view, and for as long as it stays false and the view mounted, a state is
\* reached with the mirror and the column list empty, the board id null and
\* the offline cache key removed.
C10_FallingEdgeClears ==
  (mounted /\ nAuth > 0 /\ ~isAuthenticated /\ loadTimer)
    ~> (Cleared \/ isAuthenticated \/ ~mounted)

\* the clear has run after a falling edge that followed a completed pass
C10_Witness ==
  /\ mounted
  /\ nAuth > 0
  /\ ~isAuthenticated
  /\ ~loadTimer
  /\ Cleared
  /\ done.kind # "none"
  /\ done.result # <<>>

\* C11: once the unauthenticated clear has run in a mounted view and while
\* isAuthenticated stays false, the mirror is empty and the offline cache key
\* is absent, whatever handlers were in flight at the falling edge.
C11_ClearedStays ==
  (mounted /\ ~isAuthenticated /\ ~loadTimer) => (cards = <<>> /\ ~cache.present)

----------------------------------------------------------------------------
(* Mutation commands *)

\* the backend write of handler t was rejected in this step
WriteFailed(t) ==
  /\ tasks[t].kind \in {"move", "create"}
  /\ tasks[t].pc = "write"
  /\ Progressed(t)
  /\ srvVer' = srvVer

\* the backend write of handler t succeeded in this step
WriteSucceeded(t) ==
  /\ tasks[t].kind \in {"move", "create"}
  /\ tasks[t].pc = "write"
  /\ Progressed(t)
  /\ srvVer' # srvVer

\* C12: when cards.create or cards.move fails, the mirror and the offline
\* cache are left as they were, the command ends without a reload pass, and
\* the user is shown an error.
C12_FailedWriteReported ==
  [][ \A t \in Slots :
        WriteFailed(t) =>
          /\ cards' = cards
          /\ cache' = cache
          /\ tasks'[t].kind = "none"
          /\ alerts' = alerts + 1 ]_vars

\* C13: a command that writes closes over the column list known when it is
\* issued; after its write succeeds it fetches the cards of every column of
\* that list, one after the other, and ends by replacing the mirror with
\* what the fetches returned.
C13_ReloadAfterWrite ==
  [][ \A t \in Slots :
        /\ (tasks[t].kind = "none" /\ tasks'[t].kind \in {"move", "create"})
             => tasks'[t].cols = ColumnIds(columns)
        /\ (WriteSucceeded(t) /\ tasks[t].cols # <<>>)
             => /\ tasks'[t].pc = "fetch"
                /\ tasks'[t].idx = 1
                /\ tasks'[t].cols = tasks[t].cols
                /\ tasks'[t].acc = <<>>
        /\ (tasks[t].kind \in {"move", "create"} /\ tasks[t].pc = "fetch" /\ Progressed(t))
             => IF tasks[t].idx < Len(tasks[t].cols)
                THEN /\ tasks'[t].pc = "fetch"
                     /\ tasks'[t].idx = tasks[t].idx + 1
                     /\ tasks'[t].cols = tasks[t].cols
                ELSE /\ tasks'[t].kind = "none"
                     /\ done'.kind = tasks[t].kind
                     /\ done'.cols = tasks[t].cols
                     /\ mounted => cards' = done'.result ]_vars

\* the reload of a move over columns A and B has replaced the mirror
C13_Witness ==
  /\ done.kind = "move"
  /\ done.cols = <<"A", "B">>
  /\ done.failed = {}
  /\ cards = done.result
  /\ cards # <<>>
  /\ \A t \in Slots : tasks[t].kind = "none"

\* C14: a permitted deleteColumn(D) that leaves at least one column gives
\* every card that pointed at D the id of the first remaining column, also
\* when D was the first column; afterwards no card of the mirror points at D.
C14_DeleteReassigns ==
  [][ ( /\ CommandStep("deleteColumn")
        /\ ~lastCmd'.denied
        /\ Len(columns') > 0 )
      => LET D == CHOOSE d \in SeqToSet(ColumnIds(columns)) :
                    d \notin SeqToSet(ColumnIds(columns'))
         IN  /\ Len(cards') = Len(cards)
             /\ \A i \in DOMAIN cards :
                  /\ cards[i].columnId = D => cards'[i].columnId = columns'[1].id
                  /\ cards'[i].columnId # D ]_vars

\* C15: dropping a card on the column it is shown in sends no cards.move,
\* starts no reload pass and leaves the mirror and the offline cache alone.
C15_SameColumnMoveIsNoOp ==
  [][ \A i \in DOMAIN cards : \A c \in AnyColumnId :
        (Drop(i, c) /\ cards[i].columnId = c)
          => /\ tasks' = tasks
             /\ srvCards' = srvCards
             /\ srvVer' = srvVer
             /\ cards' = cards
             /\ cache' = cache ]_vars

\* a card of the loaded board was just dropped on its own column
C15_Witness ==
  /\ lastCmd.name = "dropSameColumn"
  /\ Len(columns) = 2
  /\ cards # <<>>
  /\ srvVer = 0

----------------------------------------------------------------------------
(* Offline cache *)

\* C17: right after a card-loading pass completes (loadCards, the reload of
\* a move, the reload of a create) the offline cache parses to the mirror
\* that pass has set.
C17_CacheEqualsMirror ==
  [][ \A t \in Slots :
        (PassCompletes(t) /\ mounted)
          => /\ cache'.present
             /\ Parse(cache'.value) = cards'
             /\ cards' = done'.result ]_vars

\* the reload of a create has just written a non-empty mirror and the cache
C17_Witness ==
  /\ done.kind = "create"
  /\ cards = done.result
  /\ cards # <<>>
  /\ cache.present
  /\ Parse(cache.value) = cards

\* C18: a view that starts unauthenticated has an empty mirror from its
\* first state on, and no offline cache once its clear has run, even when
\* the cache held cards.
C18_UnauthStartEmpty ==
  (nAuth = 0 /\ ~isAuthenticated)
    => /\ cards = <<>>
       /\ (mounted /\ ~loadTimer) => ~cache.present

\* the load chain and the pass it triggers have run to their end, with no
\* failure, no authentication change and no command
LoadSettled ==
  /\ mounted
  /\ isAuthenticated
  /\ nAuth = 0
  /\ nCmd = 0
  /\ nFail = 0
  /\ ~loadTimer
  /\ ~cardsTimer
  /\ \A t \in Slots : tasks[t].kind = "none"

\* C19: after an authenticated start whose load chain completes without
\* error, the mirror is exactly what the backend returned in that load:
\* nothing when there is no project, no board or no column.
C19_LoadReplacesCache ==
  LoadSettled =>
    cards = IF srvKind = "full"
            THEN ExpectedMirror(srvCards, ColumnIds(columns))
            ELSE <<>>

\* C20: a handleSaveCard that can resolve no destination column (none in
\* the card data, none selected, no column loaded) sends no cards.create,
\* shows the user a message and leaves the mirror alone.
C20_NoColumnNoRequest ==
  [][ \A nc \in NewCards :
        (HandleSaveCard(nc) /\ ~Truthy(ChosenColumnId(nc)))
          => /\ tasks' = tasks
             /\ srvCards' = srvCards
             /\ srvVer' = srvVer
             /\ alerts' = alerts + 1
             /\ cards' = cards ]_vars

\* the message was shown for a save issued before any column was known
C20_Witness ==
  /\ lastCmd.name = "saveCard"
  /\ alerts = 1
  /\ nFail = 0
  /\ srvVer = 0
  /\ \A t \in Slots : tasks[t].kind # "create"

----------------------------------------------------------------------------
(* Card viewer *)

\* C16: every payload handed to cards.update has only keys among title,
\* description, priority, position and column_id, each with the pending
\* value, and a save whose pending changes have none of these keys sends no
\* cards.update at all.
C16_UpdateAllowList ==
  [][ LET allowed == {"title", "description", "priority", "position", "column_id"}
      IN  /\ updateLog' # updateLog =>
                LET sent == updateLog'[Len(updateLog')]
                IN  /\ DOMAIN sent.payload \subseteq allowed
                    /\ DOMAIN sent.payload \subseteq DOMAIN viewer.closure
                    /\ \A k \in DOMAIN sent.payload : sent.payload[k] = viewer.closure[k]
          /\ (viewer.pc = "import" /\ viewer'.pc # "import"
                /\ DOMAIN viewer.closure \cap allowed = {})
               => updateLog' = updateLog ]_vars

\* an update was sent for pending changes that also held a key outside the list
C16_Witness ==
  \E i \in DOMAIN updateLog :
    /\ DOMAIN updateLog[i].pending \ BackendSupportedFields # {}
    /\ DOMAIN updateLog[i].payload # {}

----------------------------------------------------------------------------
(* FilterEngine *)

\* no facet of activeFilters has a selection
NoActiveFacet ==
  Len(activeFilters.priority) + Len(activeFilters.assignee) + Len(activeFilters.dueDate) = 0

\* C21: with an empty search text and no active facet the filter returns
\* the mirror itself: the same cards in the same order.
C21_FilterIdentity ==
  (searchQuery = "" /\ NoActiveFacet)
    => FilteredCards(cards, searchQuery, activeFilters) = cards

\* a two-card mirror shown unfiltered after the filters were set to a value
\* without a selection
C21_Witness ==
  /\ searchQuery = ""
  /\ NoActiveFacet
  /\ activeFilters # NoFilters
  /\ Len(cards) = 2
  /\ FilteredCards(cards, searchQuery, activeFilters) = cards

\* the facets with a selection
ActiveFacets == {f \in {"priority", "assignee", "dueDate"} : Len(activeFilters[f]) > 0}

\* the card satisfies the facet: its priority is selected, one of its
\* assignees is selected, its due date falls in one of the selected buckets
Satisfies(card, facet) ==
  CASE facet = "priority" -> \E i \in 1..Len(activeFilters.priority) :
                               card.priority = activeFilters.priority[i]
    [] facet = "assignee" -> \E i \in 1..Len(card.assignedTo) :
                               \E j \in 1..Len(activeFilters.assignee) :
                                 card.assignedTo[i] = activeFilters.assignee[j]
    [] facet = "dueDate" -> \E i \in 1..Len(activeFilters.dueDate) :
                              MatchesBucket(card.dueDate, activeFilters.dueDate[i],
                                            activeFilters, DateAt(now))

\* C22: active facets combine by AND: the filter result is exactly the
\* cards of the mirror, in mirror order, that match the search text and
\* satisfy every active facet.
C22_FacetsCombineByAnd ==
  FilteredCards(cards, searchQuery, activeFilters) =
    SelectSeq(cards, LAMBDA card :
      /\ (searchQuery # "" => MatchesSearch(card, searchQuery))
      /\ \A f \in ActiveFacets : Satisfies(card, f))

\* priority = [high] and assignee = [m1]: of two high cards only the one
\* assigned to m1 is returned
C22_Witness ==
  /\ activeFilters.priority = <<"high">>
  /\ activeFilters.assignee = <<"m1">>
  /\ Len(cards) = 2
  /\ \A i \in 1..2 : cards[i].priority = "high"
  /\ Len(FilteredCards(cards, searchQuery, activeFilters)) = 1

\* C23: while the dueDate facet has a selection, no card without a due
\* date is in the filter result.
C23_NoDueDateNoMatch ==
  Len(activeFilters.dueDate) > 0 =>
    \A i \in 1..Len(FilteredCards(cards, searchQuery, activeFilters)) :
      Truthy(FilteredCards(cards, searchQuery, activeFilters)[i].dueDate)

\* a card without a due date is filtered out by the dueDate facet alone
\* while a dated card of the same mirror stays
C23_Witness ==
  /\ activeFilters.dueDate = <<"overdue">>
  /\ Len(activeFilters.priority) + Len(activeFilters.assignee) = 0
  /\ searchQuery = ""
  /\ Len(cards) = 2
  /\ \E i \in 1..2 : ~Truthy(cards[i].dueDate)
  /\ Len(FilteredCards(cards, searchQuery, activeFilters)) = 1

----------------------------------------------------------------------------
(* Ordering of passes *)

\* a command handler is entered or resumes after its write in this step
CommandRuns ==
  \/ nCmd' # nCmd
  \/ \E t \in Slots : tasks[t].kind \in {"move", "create"} /\ tasks[t].pc = "write"
                      /\ Progressed(t)

\* C24: a pass that completes replaces the mirror by the cards it has
\* fetched itself, and from then on the mirror stays the result of the last
\* completed pass until a command runs or another pass completes: it is
\* never the result of an older pass nor a merge of two.
C24_MirrorIsLatestPass ==
  [][ /\ \A t \in Slots :
           (PassCompletes(t) /\ mounted)
             => /\ cards' = done'.result
                /\ done'.kind = tasks[t].kind
                /\ done'.cols = tasks[t].cols
                /\ Len(cards') >= Len(tasks[t].acc)
                /\ SubSeq(cards', 1, Len(tasks[t].acc)) = tasks[t].acc
                /\ Ids(cards') \subseteq
                     Ids(tasks[t].acc) \cup
                     {id \in DOMAIN srvCards :
                        srvCards[id].column_id = tasks[t].cols[tasks[t].idx]}
      /\ (AfterReconciliation /\ ~CommandRuns /\ ~\E t \in Slots : PassCompletes(t))
           => (cards' = cards /\ done' = done) ]_vars

\* the reload of a move completed after loadCards had: the mirror is the
\* reload's result and differs from what loadCards had set
C24_Witness ==
  /\ done.kind = "move"
  /\ done.failed = {}
  /\ cards = done.result
  /\ cards # CachedMirror
  /\ cards # <<>>
  /\ ~cardsTimer
  /\ ~loadTimer
  /\ \A t \in Slots : tasks[t].kind = "none"

\* C25: reloads are not sequenced.  The reload of a move that has read an
\* older backend state than a reload which has already completed still
\* replaces the mirror and the offline cache with its result when it
\* completes.
C25_StaleReloadOverwrites ==
  [][ \A t \in Slots :
        ( /\ PassCompletes(t)
          /\ tasks[t].kind = "move"
          /\ done.kind = "move"
          /\ \E v \in tasks[t].vers : \E w \in done.vers : v < w )
        => /\ cards' = done'.result
           /\ cache' = Stored(cards')
           /\ tasks[t].vers \subseteq done'.vers ]_vars

\* two moves, both written; the reload of the first, which read the backend
\* between the two writes, completed last: the mirror shows a card in a
\* column the backend no longer has it in
C25_Witness ==
  /\ srvVer = 2
  /\ \A t \in Slots : tasks[t].kind = "none"
  /\ done.kind = "move"
  /\ done.failed = {}
  /\ 1 \in done.vers
  /\ cards = done.result
  /\ \E i \in DOMAIN cards : cards[i].columnId # srvCards[cards[i].id].column_id
  /\ cards # ExpectedMirror(srvCards, ColumnIds(columns))

----------------------------------------------------------------------------
(* Leaving the board *)

\* C26: unmounting clears both debounce timers, no load or pass starts
\* afterwards, and no request that was in flight at the unmount writes the
\* mirror or the offline cache when it returns.
C26_UnmountDiscards ==
  [][ /\ (mounted /\ ~mounted') => (~loadTimer' /\ ~cardsTimer')
      /\ ~mounted =>
           /\ \A t \in Slots :
                tasks[t].kind = "none" => tasks'[t].kind \notin {"load", "cards"}
           /\ cards' = cards
           /\ cache' = cache ]_vars

----------------------------------------------------------------------------
(* Card viewer: loading *)

\* the loader has come to rest in the open viewer
LoadSettledInViewer ==
  /\ viewer.pc = "idle"
  /\ ~viewer.effect
  /\ \A i \in 1..Len(viewer.runs) : viewer.runs[i].didCancel

\* C27: once the loader of the card viewer has come to rest without the
\* referenced card, the viewer holds the synthesized placeholder card and
\* not null.
C27_PlaceholderOnFailure ==
  (LoadSettledInViewer /\ viewer.cardData # "loaded") => viewer.cardData = "placeholder"

----------------------------------------------------------------------------
(* Load chain *)

\* C28: a load chain in which the projects, boards or columns request
\* fails changes neither the board id, nor the column list, nor the mirror:
\* none of its steps up to and including the failure writes them.
C28_FailedLoadKeepsState ==
  [][ \A t \in Slots :
        ( /\ tasks[t].kind = "load"
          /\ Progressed(t)
          /\ (tasks'[t].kind = "load" \/ nFail' # nFail) )
        => /\ boardId' = boardId
           /\ columns' = columns
           /\ cards' = cards ]_vars

\* the load chain of a view that started with cached cards has failed: the
\* cached cards are still the mirror
C28_Witness ==
  /\ nFail = 1
  /\ nCmd = 0
  /\ ~loadTimer
  /\ \A t \in Slots : tasks[t].kind = "none"
  /\ columns = <<>>
  /\ boardId = Null
  /\ cards = CachedMirror
  /\ cards # <<>>

----------------------------------------------------------------------------
(* Card-loading passes *)

\* a card-loading pass starts in handler t in this step
PassStarts(t) == tasks[t].pc # "fetch" /\ tasks'[t].pc = "fetch"

\* C29: a pass starts at the first column of its column list and, whether
\* the fetch for a column returns or throws, goes on to the next column
\* with the same list; when the fetch for the last column has returned or
\* thrown, the pass ends by calling setCards with the cards it has
\* collected.  The columns whose fetch threw are only recorded.
C29_FailureDoesNotAbortPass ==
  [][ \A t \in Slots :
        /\ PassStarts(t)
             => /\ tasks'[t].idx = 1
                /\ tasks'[t].cols # <<>>
                /\ tasks'[t].failed = {}
        /\ (tasks[t].pc = "fetch" /\ Progressed(t))
             => IF tasks[t].idx < Len(tasks[t].cols)
                THEN /\ tasks'[t].kind = tasks[t].kind
                     /\ tasks'[t].pc = "fetch"
                     /\ tasks'[t].idx = tasks[t].idx + 1
                     /\ tasks'[t].cols = tasks[t].cols
                     /\ tasks[t].failed \subseteq tasks'[t].failed
                     /\ tasks'[t].failed \subseteq
                          tasks[t].failed \cup {tasks[t].cols[tasks[t].idx]}
                ELSE /\ tasks'[t].kind = "none"
                     /\ done'.kind = tasks[t].kind
                     /\ done'.cols = tasks[t].cols
                     /\ tasks[t].failed \subseteq done'.failed
                     /\ done'.failed \subseteq
                          tasks[t].failed \cup {tasks[t].cols[tasks[t].idx]}
                     /\ mounted => cards' = done'.result ]_vars

\* the initial pass over columns A and B has ended although the fetch for A
\* threw: the mirror holds the cards of B
C29_Witness ==
  /\ done.kind = "cards"
  /\ done.cols = <<"A", "B">>
  /\ done.failed = {"A"}
  /\ cards = done.result
  /\ \E i \in DOMAIN cards : cards[i].columnId = "B"
  /\ \A i \in DOMAIN cards : cards[i].columnId # "A"
  /\ \A t \in Slots : tasks[t].kind = "none"

\* the position of column id c in the column list cols, 0 if absent
PosIn(cols, c) ==
  IF \E i \in DOMAIN cols : cols[i] = c
  THEN CHOOSE i \in DOMAIN cols : cols[i] = c /\ \A j \in DOMAIN cols : cols[j] = c => i <= j
  ELSE 0

\* the cards of cs are grouped by column, the groups in the order of cols
InColumnOrder(cs, cols) ==
  \A i, j \in DOMAIN cs :
    i < j => PosIn(cols, cs[i].columnId) <= PosIn(cols, cs[j].columnId)

\* C30: a pass has one request in flight, the one for column idx of its
\* list: the cards collected so far come from the columns before idx only
\* and are grouped in column-list order; the request for the next column is
\* issued in the step in which the one in flight settles, which adds cards
\* of that column only; the mirror set by the pass is grouped in
\* column-list order.
C30_SequentialFetches ==
  [][ \A t \in Slots :
        /\ tasks'[t].pc = "fetch"
             => /\ tasks'[t].idx \in 1..Len(tasks'[t].cols)
                /\ InColumnOrder(tasks'[t].acc, tasks'[t].cols)
                /\ \A i \in DOMAIN tasks'[t].acc :
                      PosIn(tasks'[t].cols, tasks'[t].acc[i].columnId)
                        \in 1..(tasks'[t].idx - 1)
        /\ (tasks[t].pc = "fetch" /\ Progressed(t))
             => LET cur == tasks[t].cols[tasks[t].idx]
                    got == IF tasks[t].idx < Len(tasks[t].cols)
                           THEN tasks'[t].acc ELSE done'.result
                IN  /\ Len(got) >= Len(tasks[t].acc)
                    /\ SubSeq(got, 1, Len(tasks[t].acc)) = tasks[t].acc
                    /\ \A i \in (Len(tasks[t].acc) + 1)..Len(got) :
                          got[i].columnId = cur
                    /\ InColumnOrder(got, tasks[t].cols)
                    /\ (PassCompletes(t) /\ mounted) => cards' = got ]_vars

\* a pass over columns A and B has set a mirror with cards of both columns,
\* those of A first
C30_Witness ==
  /\ done.cols = <<"A", "B">>
  /\ done.failed = {}
  /\ cards = done.result
  /\ \E i, j \in DOMAIN cards :
        i < j /\ cards[i].columnId = "A" /\ cards[j].columnId = "B"
  /\ InColumnOrder(cards, done.cols)

\* the fetch in flight in handler t returns in this step
FetchReturns(t) ==
  /\ tasks[t].pc = "fetch"
  /\ Progressed(t)
  /\ IF tasks[t].idx < Len(tasks[t].cols)
     THEN tasks'[t].failed = tasks[t].failed
     ELSE done'.failed = tasks[t].failed

\* the cards handler t has collected after this step
Collected(t) ==
  IF tasks[t].idx < Len(tasks[t].cols) THEN tasks'[t].acc ELSE done'.result

\* C31: whichever pass reads a column (loadCards, the reload after a move,
\* the reload after a create) and whichever shape the answer has (array,
\* envelope, single card object), the entries the read adds are those of
\* the bare array carrying the same cards.
C31_ShapesAlike ==
  [][ \A t \in Slots :
        FetchReturns(t)
          => LET cur == tasks[t].cols[tasks[t].idx]
             IN  Collected(t) =
                   tasks[t].acc \o
                     FetchedCards("cards", "array", SrvCardsIn(srvCards, cur), cur) ]_vars

----------------------------------------------------------------------------
(* Column order *)

\* stable sort of the backend's columns by their position
InsertByPosition(s, x) ==
  LET k == Cardinality({i \in 1..Len(s) : s[i].position <= x.position})
  IN  SubSeq(s, 1, k) \o <<x>> \o SubSeq(s, k + 1, Len(s))

RECURSIVE SortByPosition(_)
SortByPosition(s) ==
  IF Len(s) = 0 THEN <<>>
  ELSE InsertByPosition(SortByPosition(SubSeq(s, 1, Len(s) - 1)), s[Len(s)])

\* the load chain of handler t ends in this step by setting the columns
\* the backend returned
ColumnsLoaded(t) ==
  /\ tasks[t].kind = "load"
  /\ tasks[t].pc = "columns"
  /\ Progressed(t)
  /\ nFail' = nFail

\* C32: a load chain that succeeds sets the column list to the columns the
\* backend returned for the board, in non-decreasing order of their
\* position, a position of 0 included, ties in arrival order.
C32_ColumnsSortedByPosition ==
  [][ \A t \in Slots :
        (ColumnsLoaded(t) /\ mounted)
          => ColumnIds(columns') =
               ColumnIds(SortByPosition(SrvColumnsOf(srvKind))) ]_vars

----------------------------------------------------------------------------
(* Order of the requests of a load *)

\* loadCards issues a cards.getAll in handler t in this step
IssuesFetch(t) ==
  /\ tasks'[t].kind = "cards"
  /\ tasks'[t].pc = "fetch"
  /\ (tasks[t].pc # "fetch" \/ tasks'[t].idx # tasks[t].idx)

\* C33: a load asks for the projects first, for the boards only when the
\* projects have returned, for the columns only when the boards have
\* returned; and while a load has not yet delivered its columns, loadCards
\* issues no cards.getAll.
C33_ChainOrder ==
  [][ \A t \in Slots :
        /\ (tasks[t].kind # "load" /\ tasks'[t].kind = "load")
             => tasks'[t].pc = "projects"
        /\ (tasks[t].kind = "load" /\ Progressed(t))
             => \/ tasks'[t].kind = "none"
                \/ /\ tasks'[t].kind = "load"
                   /\ <<tasks[t].pc, tasks'[t].pc>> \in
                        {<<"projects", "boards">>, <<"boards", "columns">>}
        /\ IssuesFetch(t)
             => ~\E u \in Slots : tasks'[u].kind = "load" ]_vars

----------------------------------------------------------------------------
(* Payload of createCard *)

\* the first of the values that is neither undefined, null nor empty
RECURSIVE FirstDefined(_)
FirstDefined(vals) ==
  IF Len(vals) = 0 THEN Undefined
  ELSE IF Truthy(Head(vals)) THEN Head(vals) ELSE FirstDefined(Tail(vals))

\* no title, an empty one or white space only
BlankTitles == {Undefined, Null, "", "  "}

\* a handleSaveCard sends cards.create in this step, from handler t
SendsCreate(t) == tasks[t].kind = "none" /\ tasks'[t].kind = "create"

\* C34: the payload handleSaveCard sends to cards.create has a title that
\* is not blank ("Untitled Card" for a blank one, else the trimmed title),
\* a priority of the enumeration (medium for any other value) and as
\* column_id the first defined value among the card data's column id, the
\* selected column and the first column of the list; the request is
\* addressed to that column.
C34_CreatePayload ==
  [][ \A t \in Slots :
        SendsCreate(t)
          => LET p == tasks'[t].payload
             IN  /\ p.title \notin BlankTitles
                 /\ p.priority \in SeqToSet(Priorities)
                 /\ tasks'[t].target = p.column_id
                 /\ \E nc \in CardInputs :
                      /\ HandleSaveCard(nc)
                      /\ p.title = IF nc.title \in BlankTitles
                                   THEN "Untitled Card" ELSE Trim(nc.title)
                      /\ p.priority =
                           IF ToLowerCase(Or(nc.priority, "")) \in SeqToSet(Priorities)
                           THEN ToLowerCase(nc.priority) ELSE "medium"
                      /\ p.column_id =
                           FirstDefined(<<nc.columnId, nc.column_id, selectedColumnId>>
                                          \o ColumnIds(columns)) ]_vars

\* cards.create is in flight for card data without column, with a blank
\* title and an unknown priority, while column B is selected and A is the
\* first column
C34_Witness ==
  \E t \in Slots :
    /\ tasks[t].kind = "create"
    /\ tasks[t].pc = "write"
    /\ tasks[t].payload.title = "Untitled Card"
    /\ tasks[t].payload.priority = "medium"
    /\ tasks[t].payload.column_id = "B"
    /\ tasks[t].target = "B"
    /\ selectedColumnId = "B"
    /\ columns # <<>>
    /\ columns[1].id = "A"

----------------------------------------------------------------------------
(* Column changes and the passes they schedule *)

\* what the backend returns for the columns of cols whose fetch did not fail
RECURSIVE ReturnedFor(_, _, _)
ReturnedFor(srv, cols, failed) ==
  IF Len(cols) = 0 THEN <<>>
  ELSE (IF Head(cols) \in failed THEN <<>>
        ELSE FetchedCards("cards", "array", SrvCardsIn(srv, Head(cols)), Head(cols)))
         \o ReturnedFor(srv, Tail(cols), failed)

\* the pass of loadCards in handler t that completes in this step is the one
\* a permitted deleteColumn has scheduled
DeletePassCompletes(t) ==
  /\ PassCompletes(t)
  /\ tasks[t].kind = "cards"
  /\ mounted
  /\ lastCmd = [name |-> "deleteColumn", denied |-> FALSE]
  /\ tasks[t].cols = ColumnIds(columns)

\* C35: every change of the column list and every change of the
\* authentication state leaves one loadCards timer pending; the pass the
\* timer starts runs over the column list as it is when the timer fires, so
\* a pass scheduled for an older list never runs; and the pass that follows
\* a permitted deleteColumn(D) sets the mirror to the cards the backend
\* returns for the remaining columns, whatever the command had reassigned
\* locally.
C35_ColumnChangeSchedulesPass ==
  [][ /\ (columns' # columns \/ isAuthenticated' # isAuthenticated) => cardsTimer'
      /\ \A t \in Slots :
           /\ (PassStarts(t) /\ tasks'[t].kind = "cards")
                => /\ cardsTimer
                   /\ ~cardsTimer'
                   /\ tasks'[t].cols = ColumnIds(columns)
           /\ DeletePassCompletes(t)
                => cards' = ReturnedFor(srvCards, tasks[t].cols, done'.failed) ]_vars

\* columns B and A were loaded with two cards in A; A was deleted, which
\* moved its cards to B locally; the pass over the remaining column B has
\* completed and the mirror is empty, as the backend has no card in B
C35_Witness ==
  /\ lastCmd = [name |-> "deleteColumn", denied |-> FALSE]
  /\ ColumnIds(columns) = <<"B">>
  /\ done.kind = "cards"
  /\ done.cols = <<"B">>
  /\ done.failed = {}
  /\ cards = <<>>
  /\ SrvCardsIn(srvCards, "A") # <<>>
  /\ ~cardsTimer
  /\ \A t \in Slots : tasks[t].kind = "none"

----------------------------------------------------------------------------
(* A load that finds no project or no board *)

\* the load chain of handler t finds no project, or no board for the first
\* project, in this step
FindsNothing(t) ==
  /\ tasks[t].kind = "load"
  /\ Progressed(t)
  /\ nFail' = nFail
  /\ \/ tasks[t].pc = "projects" /\ srvKind = "noproject"
     \/ tasks[t].pc = "boards" /\ srvKind = "noboard"

\* C36: a load that finds no project, or no board for the first project,
\* sets the column list and the mirror to empty and the board id to null,
\* and does not touch the offline cache.
C36_NothingFoundKeepsCache ==
  [][ \A t \in Slots :
        (FindsNothing(t) /\ mounted)
          => /\ columns' = <<>>
             /\ cards' = <<>>
             /\ boardId' = Null
             /\ cache' = cache
             /\ tasks'[t].kind = "none" ]_vars

\* the load of a view that started from cached cards has found no project
\* or no board: the mirror is empty, the cache still holds the cards
C36_Witness ==
  /\ srvKind \in {"noproject", "noboard"}
  /\ isAuthenticated
  /\ nAuth = 0
  /\ nFail = 0
  /\ ~loadTimer
  /\ \A t \in Slots : tasks[t].kind = "none"
  /\ columns = <<>>
  /\ boardId = Null
  /\ cards = <<>>
  /\ cache = Stored(CachedMirror)
  /\ CachedMirror # <<>>

----------------------------------------------------------------------------
(* SessionService *)

\* the call of method op resolves in this step
Resolves(op) ==
  /\ session'.pc = "idle"
  /\ session'.returned.op = op
  /\ (session.pc # "idle" \/ session'.nCalls # session.nCalls)

\* nothing of a session is left, in memory or in sessionStorage
SessionCleared(s) ==
  /\ s.currentSession = Null
  /\ s.sessionToken = Null
  /\ s.refreshToken = Null
  /\ s.user = Null
  /\ ~s.stored.present

\* C37: when logout() resolves, whether its request returned or threw, the
\* session, both tokens and the user are null, the stored entry is removed
\* and isAuthenticated() is false.
C37_LogoutClears ==
  [][ Resolves("logout")
        => /\ SessionCleared(session')
           /\ ~IsAuthenticated(session')
           /\ GetSessionToken(session') = Null ]_vars

\* a logout whose request threw has resolved with success false: nothing of
\* the session is left
C37_Witness ==
  /\ session.returned = [op |-> "logout", value |-> FALSE]
  /\ session.pc = "idle"
  /\ session.nCalls >= 2
  /\ SessionCleared(session)
  /\ ~IsAuthenticated(session)

\* C38: when initialize() resolves to true, isAuthenticated() is true; when
\* it resolves to false, the session has been cleared and isAuthenticated()
\* is false.
C38_InitializeAgrees ==
  [][ Resolves("initialize")
        => IF session'.returned.value
           THEN IsAuthenticated(session')
           ELSE SessionCleared(session') /\ ~IsAuthenticated(session') ]_vars

----------------------------------------------------------------------------
(* Unsaved changes of the card viewer *)

\* a handleSaveChanges that had set isSaving ends in this step
SaveEnds ==
  /\ viewer.pc \in {"import", "update"}
  /\ viewer'.pc = "idle"
  /\ (viewer'.saved # viewer.saved \/ viewer'.alerts # viewer.alerts)

\* C39: hasUnsavedChanges is true exactly when there are pending changes; a
\* save whose cards.update rejects keeps the pending changes and the flag,
\* a save that succeeds empties them and clears the flag; and when a save
\* has ended, by success, by failure or by the early return for a
\* malformed card id, isSaving is false.
C39_UnsavedChanges ==
  [][ /\ viewer'.hasUnsavedChanges <=> (DOMAIN viewer'.pendingChanges # {})
      /\ (viewer.pc = "update" /\ SaveEnds /\ viewer'.alerts # viewer.alerts)
           => /\ viewer'.pendingChanges = viewer.pendingChanges
              /\ viewer'.hasUnsavedChanges
      /\ (SaveEnds /\ viewer'.saved # viewer.saved)
           => /\ DOMAIN viewer'.pendingChanges = {}
              /\ ~viewer'.hasUnsavedChanges
      /\ (SaveEnds \/ (viewer'.nSaves # viewer.nSaves /\ viewer'.pc = "idle"))
           => ~viewer'.isSaving ]_vars

\* a save was sent to the backend and rejected: the changes are still
\* pending, the flag is set, isSaving is false
C39_Witness ==
  /\ viewer.pc = "idle"
  /\ viewer.alerts = 1
  /\ viewer.saved = 0
  /\ Len(updateLog) = 1
  /\ viewer.pendingChanges = updateLog[1].pending
  /\ DOMAIN viewer.pendingChanges # {}
  /\ viewer.hasUnsavedChanges
  /\ ~viewer.isSaving

====
